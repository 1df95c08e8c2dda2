----------------------------- MODULE FreshAnswer -----------------------------
(***************************************************************************)
(* What a cached check promises, and all it promises: to answer "yes" only *)
(* if yes was the truth at some moment since the question was asked, or    *)
(* less than Window before it.  It may always answer "no".                 *)
(*                                                                         *)
(* The door asks two such questions of every request: is this credential   *)
(* valid in this tenant (ServiceCred implements the answer), and does this *)
(* tenant admit logins (TenantGate does).  The two modules are refinements *)
(* of this one; the module Door is built on this one.                      *)
(***************************************************************************)
EXTENDS Integers

CONSTANTS
  Client,    \* those who ask
  Question,  \* what can be asked
  Window,    \* how long an answer may be reused
  None       \* no answer yet

VARIABLES
  answer,    \* answer[c]: the last answer c got, and when c asked
  clock,     \* true time
  lastTrue,  \* lastTrue[q]: the last moment at which yes was the answer to q
  slack      \* what a clock that was put back adds to the window

vars == <<answer, clock, lastTrue, slack>>

Init ==
  /\ answer = [c \in Client |-> None]
  /\ clock = 0 /\ slack = 0
  /\ lastTrue \in [Question -> Int]

\* The truth of q reaches into the call, or into the window before it.
MayBeYes(q, asked) ==
  \/ lastTrue[q] >= asked
  \/ asked - lastTrue[q] < Window + slack

Answer(c, q, asked, yes) ==
  /\ yes => MayBeYes(q, asked)
  /\ answer' = [answer EXCEPT ![c] = [question |-> q, asked |-> asked, yes |-> yes]]
  /\ UNCHANGED <<clock, lastTrue, slack>>

\* Time passes, and things become true and cease to be.
Move ==
  /\ clock' >= clock /\ slack' >= slack
  /\ \A q \in Question : lastTrue'[q] \in {lastTrue[q], clock'}
  /\ UNCHANGED answer

Next ==
  \/ \E c \in Client, q \in Question, asked \in 0..clock, yes \in BOOLEAN :
       Answer(c, q, asked, yes)
  \/ Move

Spec == Init /\ [][Next]_vars
=============================================================================
