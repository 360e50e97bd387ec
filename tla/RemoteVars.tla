----------------------------- MODULE RemoteVars -----------------------------
(***************************************************************************)
(* What the client functions promise an application that gives up a        *)
(* connection on which a call failed: the variables of one R workspace,    *)
(* used by one call at a time.  A call takes effect at most once, while it *)
(* is in progress; a call that returns 0 with a value returns the value    *)
(* the workspace gave to that very call (booleans that get_vec reads with   *)
(* their padding counted); a call that fails may or may not have had its    *)
(* effect, and nothing more can be asked of that workspace.                *)
(* A connection made later has a workspace of its own.                     *)
(*                                                                         *)
(* No stream, no bytes, no responses: Rcli is shown to implement this.     *)
(***************************************************************************)
EXTENDS Integers

CONSTANTS Names, NoName, Values, Absent, NoVal, Calls, VoidFns

VARIABLES
  phase,    \* "idle", "busy", "down"
  call,     \* the call in progress
  ans,      \* what the workspace made of it: [st, val], st "pending", "refused" or "done"
  rvars,    \* the workspace
  out       \* the last result: its status and its value

avars == <<phase, call, ans, rvars, out>>

Fresh   == [n \in Names |-> Absent]
Pending == [st |-> "pending", val |-> NoVal]
Refused == [st |-> "refused", val |-> NoVal]

Init == /\ phase = "idle" /\ call \in Calls /\ ans = Pending
        /\ rvars = Fresh /\ out = [status |-> 0, val |-> NoVal]

\* What the application gets of a value: get_vec of booleans takes the padding
\* to a multiple of 4 for elements.
Received(c, v) == IF c.fn = "get_vec" /\ v.xt = "BOOL"
                  THEN [v EXCEPT !.n = 4 * ((v.n + 3) \div 4)] ELSE v

Invoke(c) == /\ phase = "idle" /\ c.name # NoName
             /\ phase' = "busy" /\ call' = c /\ ans' = Pending
             /\ UNCHANGED <<rvars, out>>

\* Arguments the function rejects: the workspace is not concerned.
Reject(c) == /\ phase = "idle" /\ c.name = NoName
             /\ call' = c /\ out' = [status |-> -1, val |-> NoVal]
             /\ UNCHANGED <<phase, ans, rvars>>

Execute == /\ phase = "busy" /\ ans = Pending
           /\ LET v == IF call.val # NoVal THEN call.val ELSE rvars[call.name]
              IN  /\ v # Absent
                  /\ rvars' = [rvars EXCEPT ![call.name] = v]
                  /\ ans' = [st |-> "done", val |-> IF call.fn \in VoidFns THEN NoVal ELSE v]
           /\ UNCHANGED <<phase, call, out>>

Refuse == /\ phase = "busy" /\ ans = Pending /\ ans' = Refused
          /\ UNCHANGED <<phase, call, rvars, out>>

\* A value of the type the caller asked for.
ReturnValue == /\ phase = "busy" /\ call.fn \notin VoidFns
               /\ ans.st = "done" /\ call.xt \in {"any", ans.val.xt}
               /\ phase' = "idle" /\ ans' = Pending
               /\ out' = [status |-> 0, val |-> Received(call, ans.val)]
               /\ UNCHANGED <<call, rvars>>

\* exec_str without output and set_vec return 0 once the workspace has
\* answered, whether it carried the command out or refused it.
ReturnVoid == /\ phase = "busy" /\ call.fn \in VoidFns /\ ans # Pending
              /\ phase' = "idle" /\ ans' = Pending
              /\ out' = [status |-> 0, val |-> NoVal]
              /\ UNCHANGED <<call, rvars>>

Down == phase' = "down" /\ ans' = Pending /\ rvars' = Fresh

Fail == /\ phase = "busy" /\ Down
        /\ \E s \in {-1, -2, -3} : out' = [status |-> s, val |-> NoVal]
        /\ UNCHANGED call

\* The application closes the connection, or its process ends.
Leave == /\ phase # "down" /\ Down
         /\ UNCHANGED <<call, out>>

\* A process that ends in a call whose arguments are rejected.
LeaveRejected == /\ phase = "idle" /\ Down
                 /\ out' = [status |-> -1, val |-> NoVal]
                 /\ call' \in {c \in Calls : c.name = NoName}

Connect == /\ phase = "down" /\ phase' = "idle"
           /\ UNCHANGED <<call, ans, rvars, out>>

Next == \/ \E c \in Calls : Invoke(c) \/ Reject(c)
        \/ Execute \/ Refuse \/ ReturnValue \/ ReturnVoid
        \/ Fail \/ Leave \/ LeaveRejected \/ Connect

Spec == Init /\ [][Next]_avars
=============================================================================
