----------------------------- MODULE JobTargets -----------------------------
(***************************************************************************)
(* Which machines a bulk job is for: resolveTargets of                     *)
(* src/server/src/lib/orchestrator.js, for a list of machines, a group or  *)
(* a query.                                                                *)
(*                                                                         *)
(* Abstractions: a text is the sequence of its words, in lower case; a     *)
(* query that is no query is NoQuery.                                      *)
(***************************************************************************)
EXTENDS Naturals, Sequences, FiniteSets

NoGroup == "no group"
NoQuery == [match |-> "nothing", conditions |-> <<>>]

fetchMachinesByIds(machines, ids) == {m \in machines : m.id \in ids}

\* The distribution and the version, or the text as it is if it is no object
\* with one of them.
parseOs(os) == IF os.parts # <<>> THEN os.parts ELSE os.text

getTag(m, key) == IF key \in DOMAIN m.tags THEN m.tags[key] ELSE <<>>

Candidate(m, field) ==
  CASE field = <<"os">> -> parseOs(m.osInfo)
    [] field \in {<<"status">>, <<"hostname">>, <<"ip">>} -> m[Head(field)]
    [] field = <<"role">> -> getTag(m, "role")
    [] OTHER -> getTag(m, field[2])

Fields == {<<"os">>, <<"status">>, <<"hostname">>, <<"ip">>, <<"role">>}

Within(part, text) ==
  \E i \in 0..Len(text) :
    i + Len(part) <= Len(text) /\ SubSeq(text, i + 1, i + Len(part)) = part

\* An unknown field matches nothing; a tag the machine does not have is an
\* empty text, which a condition may ask for.
matchesCondition(m, condition) ==
  LET field == condition.field
  IN  /\ field \in Fields \/ Head(field) = "tag"
      /\ IF condition.op = "contains"
           THEN Within(condition.value, Candidate(m, field))
           ELSE condition.value = Candidate(m, field)

\* A query without conditions matches every machine, or none with "any".
applyDynamicQuery(machines, query) ==
  IF query = NoQuery THEN {}
  ELSE LET Matches(m, i) == matchesCondition(m, query.conditions[i])
       IN  {m \in machines :
              IF query.match = "any"
                THEN \E i \in DOMAIN query.conditions : Matches(m, i)
                ELSE \A i \in DOMAIN query.conditions : Matches(m, i)}

\* The query of the request goes before the one of the group.
GroupTargets(machines, group, query) ==
  IF group.type = "dynamic"
    THEN applyDynamicQuery(machines, IF query # NoQuery THEN query ELSE group.query)
    ELSE fetchMachinesByIds(machines, group.members)

resolveTargets(machines, groups, r) ==
  CASE r.targetType = "group" /\ r.groupId # NoGroup ->
         GroupTargets(machines, groups[r.groupId], r.dynamicQuery)
    [] r.targetType = "dynamic" -> applyDynamicQuery(machines, r.dynamicQuery)
    [] OTHER -> fetchMachinesByIds(machines, r.machineIds)

\* POST refuses a list that is empty, createJob one nothing was found for.
Refused(machines, groups, r) ==
  \/ r.targetType = "adhoc" /\ r.machineIds = {}
  \/ r.targetType = "group" /\ r.groupId \notin DOMAIN groups \cup {NoGroup}
  \/ resolveTargets(machines, groups, r) = {}

=============================================================================
