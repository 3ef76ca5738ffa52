--------------------------- MODULE MCResourceCall ---------------------------
(***************************************************************************)
(* ResourceCall for TLC: request() called directly with a read and a       *)
(* mutation, and one typed method of every combination of verb, reader and *)
(* way to make the request; one status of every class the code tells       *)
(* apart, and Retry-After values on both sides of both clamps.             *)
(***************************************************************************)
EXTENDS ResourceCall, FiniteSets, TLC

MCMethods == {"GET", "POST", "PUT", "DELETE"}
MCStatuses == {200, 206, 403, 404, 429, 503}
MCRetryAfters == {-2, 240}

\* What the properties see of a method.
Profile(row) == <<row.verb, row.changes, row.reader, row.builds>>

MCOperations ==
  { CHOOSE row \in AllOperations : Profile(row) = p : p \in {Profile(row) : row \in AllOperations} }

\* The backoff table is the formula of _retry_delay.
ASSUME BackoffIsCappedExponential ==
  \A n \in 0 .. 10 : Backoff(n) = IF 2 ^ n < 16 THEN 2 ^ n ELSE 16

\* docs/white-label.md counts the operations of the API.
ASSUME AllOperationsListed == Cardinality(AllOperations) = 103

\* Every reader, every body.
ASSUME NoReaderHidesAWarning == WarningSurfaces
=============================================================================
