-------------------------- MODULE MCSignalService --------------------------
(* Concurrent, repeated and conflicting signals for two orders, failing    *)
(* writes, stops, deaths and restarts.                                     *)
EXTENDS SignalService, TLC

CONSTANTS i1, i2, b1, b2, r1, r2, r3

MCIds      == {i1, i2}
MCBodies   == {b1, b2}
MCRequests == {r1, r2, r3}

\* Two contents for the first order, one for the second.
MCInputs == {[id |-> i1, body |-> b1], [id |-> i1, body |-> b2],
             [id |-> i2, body |-> b1]}

\* The same without conflicting contents.
MCOneBody == [id : MCIds, body : {b1}]

Answered(status, success, orderID, error, exStatus) ==
  [status |-> status, success |-> success, orderID |-> orderID,
   error |-> error, exStatus |-> exStatus, filled |-> FALSE, trades |-> FALSE]

\* Booked; not matched; refused; uncertain.
MCResponses ==
  {Answered(200, "true", "ours", "none", "accepting"),
   Answered(400, "none", "ours", "no_match", "none"),
   Answered(200, "false", "empty", "other", "none"),
   Answered(503, "none", "none", "other", "none")}

Symmetry == Permutations(MCRequests)

\* Every status code the classification tells apart, and one of each class.
MCCodes == {200, 201, 299, 300, 400, 401, 403, 404, 408, 422, 429, 500, 503}

=============================================================================
