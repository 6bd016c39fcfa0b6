------------------------------- MODULE Requests -------------------------------
(***************************************************************************)
(* The frame of the smaller services.  A handler is the goroutine that     *)
(* answers one request; it runs one statement at a time, so what lies      *)
(* between two statements is a label and the local variables.  Any number  *)
(* of handlers run at once, and every one of them may stop with the        *)
(* process.                                                                *)
(***************************************************************************)
CONSTANTS Handlers, Nobody

VARIABLES
  pc,   \* the next statement of each handler
  req   \* its local variables

NoReq == [op |-> Nobody]

Goto(h, label, locals) ==
  /\ pc' = [pc EXCEPT ![h] = label]
  /\ req' = [req EXCEPT ![h] = locals]

Begin(h, label, locals) == pc[h] = "idle" /\ Goto(h, label, locals)

Finish(h) == Goto(h, "idle", NoReq)

\* The process stops: no handler gets to its next statement.
DropRequests ==
  /\ pc' = [h \in Handlers |-> "idle"]
  /\ req' = [h \in Handlers |-> NoReq]
=============================================================================
