------------------------------- MODULE Subtree -------------------------------
(***************************************************************************)
(* guards.py and server.py: guarded(), the wrapper of every tool, with the *)
(* subtree allow-list it enforces by walking from each target to the root, *)
(* one stat of the core per step; search, which asks convert_search_ai and *)
(* filters its hits by the same walk, and read_text, which asks it too; and *)
(* the effect of the tools on the tree.                                    *)
(*                                                                         *)
(* A tool runs synchronously on the event loop, so this process has one    *)
(* call at a time.  The tree belongs to the core: other doors create, move, *)
(* delete and undelete entities between any two of the call's RPCs.        *)
(*                                                                         *)
(* Operators named X_Remark are deviations of the X that follows them.     *)
(***************************************************************************)
EXTENDS Integers, Sequences, FiniteSets, CsaiClient

CONSTANTS
  Uid,       \* entities that exist, or may come to exist
  Root,      \* the core's root: "" and its aliases, as _norm_uid maps them
  Absent,    \* the parent of what does not exist
  Allowed,   \* MCP_SUBTREE_ALLOWLIST; {}: unrestricted
  MaxDepth,  \* max_depth of within_allowlist (256 in the code)
  MaxHits,   \* bound: hits a search returns, min(limit, MCP_MAX_RESULTS)
  Enabled,   \* CSAI_URL and CSAI_INTERNAL_SECRET are set
  None       \* no call, no record, nothing to walk from

Entity == Uid \cup {Root}

\* The tools, by what they do to the tree, and their UID-bearing arguments;
\* "use" stands for those that change no parent.
Targets == [use |-> {<<u>> : u \in Entity}, create |-> {<<u>> : u \in Entity},
            move |-> Entity \X Entity, copy |-> Entity \X Entity,
            read_text |-> {<<u>> : u \in Entity}, search |-> {<<>>}]

Phase == {"check", "filter", "done", "denied", "error"}

\* An operation: its tool and UIDs, those left to decide, and the walk about the
\* first of them.
Call == [tool : DOMAIN Targets, uids : Seq(Entity), todo : Seq(Entity), at : Entity \cup {None},
         steps : 0..MaxDepth, seen : SUBSET Uid, kept : SUBSET Entity, dropped : SUBSET Entity,
         phase : Phase, acted : BOOLEAN, changes : 0..2, reply : Status \cup {None},
         inside : SUBSET Entity, outside : SUBSET Entity]

\* The list cannot name the root: Config drops empty items, and a target "root"
\* is compared as "".
ASSUME AllowedAssumption  == IsFiniteSet(Uid) /\ Allowed \subseteq Uid
ASSUME DepthAssumption    == MaxDepth \in Int /\ MaxDepth > 0 /\ MaxHits \in Nat
ASSUME EnabledAssumption  == Enabled \in BOOLEAN
ASSUME SentinelAssumption == /\ Root \notin Uid /\ Absent \notin Entity
                             /\ None \notin Entity \cup {Absent} \cup Call

VARIABLES
  parent,  \* parent[u]: where u is in the core's tree (external)
  call,    \* the operation in progress
  audit    \* the result in the last audit record

vars == <<parent, call, audit>>
-----------------------------------------------------------------------------
\* _parent_of, with Root for the None it answers at the top and for NotFound.
ParentOf(tree, u) == IF u = Root \/ tree[u] = Absent THEN Root ELSE tree[u]

\* Up(tree, u)[n]: the n-th ancestor of u.
Up(tree, u) ==
  LET up[n \in Nat] == IF n = 0 THEN u ELSE ParentOf(tree, up[n - 1])
  IN  up

Under(tree, u, p) ==
  LET up == Up(tree, u) IN \E n \in 0..Cardinality(Uid) : up[n] = p

\* What the walk is for: an allow-listed entity less than MaxDepth steps above u.
Inside(tree, u) ==
  LET up == Up(tree, u) IN \E n \in 0..(MaxDepth - 1) : up[n] \in Allowed

Exists(u) == u = Root \/ parent[u] # Absent

\* The core keeps a tree, and deletes no directory from above its entries.
IsTree(tree) == \A u \in Uid : /\ Under(tree, u, Root)
                               /\ tree[u] \in Uid => tree[tree[u]] # Absent
Tree == {t \in [Uid -> Entity \cup {Absent}] : IsTree(t)}

Init == parent \in Tree /\ call = None /\ audit = None
-----------------------------------------------------------------------------
Members(us) == {us[i] : i \in DOMAIN us}

\* call, with the walk that is to decide about the first of todo about to begin.
Walk_SharedSeen(c, todo) == [c EXCEPT !.todo = todo, !.steps = 0,
                                      !.at = IF todo = <<>> THEN None ELSE Head(todo)]
Walk(c, todo) == [c EXCEPT !.todo = todo, !.seen = {}, !.steps = 0,
                           !.at = IF todo = <<>> THEN None ELSE Head(todo)]

\* c with us to be decided: what is inside and what outside from now (history).
Watch(c, us) ==
  LET S == Members(us)
  IN  [c EXCEPT !.uids = us, !.changes = 0,
                !.inside = {u \in S : Inside(parent, u)},
                !.outside = {u \in S : ~Inside(parent, u)}]

\* The UID-bearing arguments that guarded() has checked.
ToCheck_FirstOnly(us) ==
  IF Allowed = {} \/ us = <<>> THEN <<>> ELSE <<us[1]>>
ToCheck(us) == IF Allowed = {} THEN <<>> ELSE us

Begin(tool, us) ==
  /\ call = None
  /\ call' = Walk(Watch([tool |-> tool, uids |-> us, todo |-> <<>>, at |-> None,
                         steps |-> 0, seen |-> {}, kept |-> {}, dropped |-> {},
                         phase |-> "check", acted |-> FALSE, changes |-> 0,
                         reply |-> None,
                         inside |-> {}, outside |-> {}], us),
                  ToCheck(us))
  /\ UNCHANGED <<parent, audit>>

\* within_allowlist, before it asks for the next parent.
Accepts(c) == c.steps < MaxDepth /\ c.at \in Allowed

Cut(c) == c.at \notin Allowed /\ c.at \in c.seen \cup {Root}
Rejects(c) == c.steps = MaxDepth \/ Cut(c)

Walking == call # None /\ call.at # None /\ call.phase \in {"check", "filter"}
Ready   == call # None /\ call.phase = "check" /\ call.todo = <<>>
Asking  == Walking /\ ~Accepts(call) /\ ~Rejects(call)

\* stat answers, and the walk goes on from the parent.
Climb_Unmarked ==
  /\ Asking
  /\ call' = [call EXCEPT !.at = ParentOf(parent, call.at), !.steps = @ + 1]
  /\ UNCHANGED <<parent, audit>>
Climb ==
  /\ Asking
  /\ call' = [call EXCEPT !.at = ParentOf(parent, call.at), !.steps = @ + 1,
                          !.seen = @ \cup {call.at}]
  /\ UNCHANGED <<parent, audit>>

\* c once its first target is decided: filtering ends with the last hit.
NextTarget(c) == Walk([c EXCEPT !.phase = IF @ = "filter" /\ Tail(c.todo) = <<>>
                                     THEN "done" ELSE @], Tail(c.todo))

Accept ==
  /\ Walking /\ Accepts(call)
  /\ call' = NextTarget([call EXCEPT !.kept = @ \cup {Head(call.todo)}])
  /\ UNCHANGED <<parent, audit>>

\* A target outside ends the call with a GuardError; a hit outside is dropped.
Reject ==
  /\ Walking /\ Rejects(call)
  /\ LET c == [call EXCEPT !.dropped = @ \cup {Head(call.todo)}]
     IN  call' = IF call.phase = "check" THEN [c EXCEPT !.phase = "denied"]
                                         ELSE NextTarget(c)
  /\ UNCHANGED <<parent, audit>>
-----------------------------------------------------------------------------
\* The trees in which the core's handler of c may leave the store (external).
\* A new entity gets a uid of its own.
Placed(c, p) ==
  {[parent EXCEPT ![n] = p] :
     n \in {u \in Uid \ (Allowed \cup Members(c.uids)) : parent[u] = Absent}}

Effects(c) ==
  CASE c.tool = "use"      -> {parent}
    [] c.tool = "create"   -> {t \in Placed(c, c.uids[1]) : Exists(c.uids[1])}
    [] c.tool = "copy"     -> {t \in Placed(c, c.uids[2]) :
                                 \A u \in Members(c.uids) : Exists(u)}
    [] c.tool = "move"     -> IF /\ c.uids[1] # Root
                                 /\ \A u \in Members(c.uids) : Exists(u)
                                 /\ ~Under(parent, c.uids[2], c.uids[1])
                              THEN {[parent EXCEPT ![c.uids[1]] = c.uids[2]]}
                              ELSE {}

\* The tool calls the core, which carries it out; the reply may be lost.
Act ==
  /\ Ready /\ call.tool \notin DOMAIN Guarded
  /\ parent' \in Effects(call)
  /\ \E phase \in {"done", "error"} :
       call' = [call EXCEPT !.phase = phase, !.acted = TRUE]
  /\ UNCHANGED audit

\* convert_search_ai has answered.
Answered == [call EXCEPT !.acted = TRUE, !.reply = "200"]

\* It gets its hits from an index that may be behind the tree.
Hits == {SubSeq(hits, 1, n) : n \in 0..MaxHits, hits \in [1..MaxHits -> Uid]}

Kept(us) == [Watch(Answered, us) EXCEPT !.phase = "done", !.kept = Members(us)]

Search_Unfiltered ==
  /\ Enabled /\ Ready /\ call.tool = "search"
  /\ \E us \in Hits : call' = Kept(us)
  /\ UNCHANGED <<parent, audit>>
Search ==
  /\ Enabled /\ Ready /\ call.tool = "search"
  /\ \E us \in Hits :
       call' = IF Allowed = {} \/ us = <<>> THEN Kept(us)
               ELSE Walk([Watch(Answered, us) EXCEPT !.phase = "filter"], us)
  /\ UNCHANGED <<parent, audit>>

ReadText ==
  /\ Enabled /\ Ready /\ call.tool = "read_text"
  /\ call' = [Answered EXCEPT !.phase = "done"]
  /\ UNCHANGED <<parent, audit>>

\* The request to convert_search_ai ends otherwise, or is not made at all.
AskedInVain ==
  /\ Ready /\ call.tool \in DOMAIN Guarded
  /\ \E status \in IF Enabled THEN Status \ {"200"} ELSE {None} :
       call' = [call EXCEPT !.reply = status,
                            !.phase = IF Raised(Enabled, status) \in Guarded[call.tool]
                                      THEN "denied" ELSE "error"]
  /\ UNCHANGED <<parent, audit>>

\* An RPC fails: no permission, no core, no such file (which for the walk's stat
\* is an answer).
Raise ==
  /\ (Ready /\ call.tool \notin DOMAIN Guarded) \/ Asking
  /\ call' = [call EXCEPT !.phase = "error"]
  /\ UNCHANGED <<parent, audit>>

\* A GuardError of the tool itself: content over a cap, no origin for a link.
ToolRefuses ==
  /\ Ready /\ call.tool = "use"
  /\ call' = [call EXCEPT !.phase = "denied"]
  /\ UNCHANGED <<parent, audit>>

\* The record that guarded() writes.
Result_Swallowed(c) == IF c.phase = "denied" THEN "denied" ELSE "ok"
Result(c) == IF c.phase = "done" THEN "ok" ELSE c.phase

Return ==
  /\ call # None /\ call.phase \in {"done", "denied", "error"}
  /\ audit' = Result(call)
  /\ call' = None
  /\ UNCHANGED parent

\* Another door creates, moves, deletes or undeletes an entity; what it does
\* after a call's last RPC it may as well do after the call.
OthersChange(u, p) ==
  /\ call # None => call.phase \in {"check", "filter"}
  /\ parent[u] # p
  /\ parent' = [parent EXCEPT ![u] = p]
  /\ parent' \in Tree
  /\ call' = IF call = None THEN None
             ELSE LET S == Members(call.uids)
                  IN  [call EXCEPT !.changes = IF @ < 2 THEN @ + 1 ELSE @,
                                   !.inside = @ \cup {v \in S : Inside(parent', v)},
                                   !.outside = @ \cup {v \in S : ~Inside(parent', v)}]
  /\ UNCHANGED audit

Next ==
  \/ \E tool \in DOMAIN Targets : \E us \in Targets[tool] : Begin(tool, us)
  \/ Climb \/ Accept \/ Reject \/ Act \/ Search \/ ReadText \/ AskedInVain
  \/ Raise \/ ToolRefuses \/ Return
  \/ \E u \in Uid, p \in Entity \cup {Absent} : OthersChange(u, p)

Spec == Init /\ [][Next]_vars
-----------------------------------------------------------------------------
\* The tree is a tree, and a walk is where it may be: no longer than MaxDepth,
\* having seen as many entities as it took steps.
TypeOK ==
  /\ parent \in Tree
  /\ audit \in {None, "ok", "denied", "error"}
  /\ call \in Call \cup {None}
  /\ call # None => Cardinality(call.seen) = call.steps

\* What this call uses, changes or returns under the allow-list.
Granted(c) ==
  c.kept \cup (IF c.acted /\ c.tool # "search"
               THEN Members(c.uids) ELSE {})

\* The walk reads one parent at a time from a tree that moves.  While other
\* doors changed it at most once since the call began to check, whatever a tool
\* acted on and whatever search returns was inside the allowed subtree at some
\* one moment of that check.  (Two changes can show a path that never was.)
GrantedWasInside ==
  (call # None /\ Allowed # {} /\ call.changes <= 1)
    => Granted(call) \subseteq call.inside

\* Nor is anything refused, or left out of a search, that was inside all along:
\* cycle guard and depth limit included.
RefusedWasOutside ==
  (call # None /\ call.changes <= 1) => call.dropped \subseteq call.outside

\* A tool changes the place of an entity only if it was inside or is new, and
\* only to a place inside, when no other door moved anything during the call.
\* Ancestry counts here without its limit.
Beneath(tree, u) == \E a \in Allowed : Under(tree, u, a)
Confined ==
  [][(call # None /\ Allowed # {} /\ call.changes = 0 /\ Act)
       => \A u \in Uid : parent'[u] # parent[u] =>
            /\ parent[u] # Absent => Beneath(parent, u)
            /\ Beneath(parent', u)]_vars

\* The log says ok only of what was carried out, and denied only of what was
\* not; after an error, which may follow a lost reply, either is possible.  Of
\* what convert_search_ai did it says denied if and only if that refused the
\* principal, or the query: no failure is logged, or answered, as a refusal or
\* as a document or search without content.
AuditHonest ==
  [][(call # None /\ call' = None)
       => /\ audit' = "ok" => call.acted
          /\ audit' = "denied" => ~call.acted
          /\ call.reply # None =>
               /\ audit' = "ok" => call.reply = "200"
               /\ (audit' = "denied") <=>
                    \/ call.reply = "403"
                    \/ call.reply = "400" /\ call.tool = "search"]_vars

\* DESIGN.md, of move: "`move` back" is the recovery path, "parent change only;
\* reversible".  So the move back passes the check, nothing else having moved.
MoveCanBeMovedBack ==
  [][(Act /\ call.tool = "move" /\ call.changes = 0)
       => \A u \in {call.uids[1], parent[call.uids[1]]} : Inside(parent', u)]_vars
=============================================================================
