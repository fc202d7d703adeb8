--------------------------- MODULE MCEffectBroker ---------------------------
(* Instances of EffectBroker for TLC.                                      *)
EXTENDS EffectBroker, TLC

(* Grant and token ids are random and never compared with anything but     *)
(* themselves; keys are only compared for equality.                        *)
Symmetry == Permutations(Grants) \cup Permutations(Tokens) \cup Permutations(Keys)

First(ids) == CHOOSE i \in ids : TRUE

(* Grants and tokens are interchangeable: they are used in one order.      *)
InOrder ==
  /\ (\E g \in Grants \ {First(Grants)} : ~Unused(g)) => ~Unused(First(Grants))
  /\ (\E k \in Tokens : context[k].revision > 0) => context[First(Tokens)].revision > 0

(* Two halves of the state space that together hold what goes wrong.  One  *)
(* token and one effect while the authority changes at will: revisions,    *)
(* grants, revocations, deadlines, narrower scopes.                        *)
ChangingAuthority ==
  /\ crashes = 0
  /\ \A k \in Tokens \ {First(Tokens)} : context[k].revision = 0
  /\ context[First(Tokens)].run = NoRun
  /\ Cardinality({o \in Operations : effects[o] # Absent}) <= 1

(* Two effects, two tokens, cron runs and crashes under one grant.         *)
RecoveringEffects ==
  /\ \A t \in Tasks : task[t].revision <= 1
  /\ \A g \in Grants : grant[g].revision <= IF g = First(Grants) THEN 1 ELSE 0
  /\ \A o \in Operations : effects[o] # Absent => o.scope = First(Scopes)

Bounded == InOrder /\ (ChangingAuthority \/ RecoveringEffects)
BoundedSpec == Init /\ [][Next /\ Bounded']_vars
=============================================================================
