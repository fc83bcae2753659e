CONSTANT Responses <- MCResponses
SPECIFICATION Spec
INVARIANT TruncatedIsError
