---------------------------- MODULE CallPromise ----------------------------
(***************************************************************************)
(* What a program may rely on when it makes calls one after another: each  *)
(* is carried out once or never, that is decided once and perhaps only     *)
(* after the call has returned, and what the program is told is true, or   *)
(* that the call failed and the program does not know.  How kite's methods *)
(* achieve it over the network is in KiteCalls.                            *)
(***************************************************************************)
EXTENDS Naturals

CONSTANT MaxCalls

VARIABLES
  inProgress,  \* the call the program waits for, or 0
  fate,        \* what becomes of each call
  told         \* what the program has been told of it

vars == <<inProgress, fate, told>>
CallIds == 1..MaxCalls

Init == /\ inProgress = 0
        /\ fate = [c \in CallIds |-> "unmade"]
        /\ told = [c \in CallIds |-> "nothing"]

Make(c) == /\ inProgress = 0 /\ fate[c] = "unmade"
           /\ inProgress' = c
           /\ fate' = [fate EXCEPT ![c] = "open"]
           /\ UNCHANGED told

\* The call is carried out, or it is certain that it never will be.
Decide(c) == /\ fate[c] = "open"
             /\ \E f \in {"done", "never"} : fate' = [fate EXCEPT ![c] = f]
             /\ UNCHANGED <<inProgress, told>>

Tell(c, what) == /\ inProgress = c /\ inProgress' = 0
                 /\ what = "value" => fate[c] = "done"
                 /\ what = "refused" => fate[c] = "never"
                 /\ told' = [told EXCEPT ![c] = what]
                 /\ UNCHANGED fate

Ends == \E c \in CallIds, what \in {"value", "refused", "unknown"} : Tell(c, what)

Next == (\E c \in CallIds : Make(c) \/ Decide(c)) \/ Ends

Safety == Init /\ [][Next]_vars

\* The program never waits for ever; the rest may stay open.
Spec == Safety /\ WF_vars(Ends)

=============================================================================
