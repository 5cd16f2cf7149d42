------------------------------ MODULE MCAgents ------------------------------
(* Two agents that meet, or two whose session is up and who move: a         *)
(* behaviour exercises one and leaves the other as it was.                   *)
EXTENDS Agents, AgentPaths

VARIABLE part

Offer(ini, resp, has) == [ini |-> ini, resp |-> resp, has |-> has, to |-> {ini, resp}]
Half(ini, resp, has, to) == [ini |-> ini, resp |-> resp, has |-> has, to |-> {to}]
Both == {"direct", "relayed"}
Plan(offers, open, changes) ==
  changes @@ [offers |-> offers, open |-> open, flight |-> 1, gathers |-> {}, stops |-> {}, closes |-> 0]

MCEnds == {"a", "b"}
\* Both paths race; a gather and a stop; the relay alone and a close; a second
\* offer that only the responder gets; an offer of nothing.
MCPlans ==
  {Plan(<<Offer("a", "b", Both)>>, TRUE, [flight |-> 2]),
   Plan(<<Offer("a", "b", {"direct"})>>, TRUE,
        [stops |-> {"a"}, gathers |-> {"a"}, flight |-> 1]),
   Plan(<<Offer("a", "b", {"relayed"})>>, TRUE, [closes |-> 1, flight |-> 1]),
   Plan(<<Offer("a", "b", {"direct"}), Half("a", "b", {"direct"}, "b")>>, TRUE,
        [closes |-> 1, flight |-> 1]),
   Plan(<<Offer("a", "b", {})>>, TRUE, [gathers |-> {"b"}])}

\* Plans under which a comment of the code does not hold.
AgainPlans ==
  {Plan(<<Offer("a", "b", {"direct"}), Offer("a", "b", {"direct"})>>, TRUE, [flight |-> 2])}
MeshEnds == {"a", "b", "c"}
MeshPlans ==
  {Plan(<<Offer("a", "b", Both), Offer("a", "c", Both)>>, FALSE, [flight |-> 2])}
ClosedPlans ==
  {Plan(<<Offer("a", "b", {"direct"}), Half("a", "b", {"direct"}, "a")>>, TRUE,
        [closes |-> 1])}
Starts == [e \in Everybody |-> IF e = Hub THEN 1 ELSE 2]

IdlePlan == CHOOSE p \in Plans : TRUE
AgentsInit ==
  /\ part \in {"meet", "move"}
  /\ part = "meet" \/ plan = IdlePlan
  /\ Init
  /\ part = "move" \/ movers = {Hub}
  /\ PathsInit

AgentsNext ==
  \/ part = "meet" /\ Next /\ UNCHANGED <<part, pathsVars>>
  \/ part = "move" /\ PathsNext /\ UNCHANGED <<part, vars>>

\* AgentsFair and PathsFair, each of the behaviours that exercise its part.
PartsFair ==
  /\ \A e \in Ends : /\ WF_vars(part = "meet" /\ Tick(e))
                     /\ WF_vars(part = "meet" /\ Elapse(e))
  /\ \A e \in Everybody : WF_pathsVars(part = "move" /\ ApplyPendingRebind(e))
  /\ \A l \in Links : WF_pathsVars(part = "move" /\ ProcessSession(l))
  /\ WF_pathsVars(part = "move" /\ \E d \in Stale : Vanish(d))
  /\ \A kind \in {"data", "challenge", "response"} :
        SF_pathsVars(part = "move" /\
                     \E d \in Current(kind), e \in Everybody : DrainSocket(e, d))

MCAgentsSpec == AgentsInit /\ [][AgentsNext]_<<part, vars, pathsVars>> /\ PartsFair
=============================================================================
