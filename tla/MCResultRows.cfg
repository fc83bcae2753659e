CONSTANT Responses <- MCResponses
SPECIFICATION Spec
INVARIANTS TypeOK RowsAllDelivered RowOfQuery MetaAllParsed EndClosesBody
PROPERTY NoRowAfterClose
