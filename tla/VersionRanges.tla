--------------------------- MODULE VersionRanges ---------------------------
(***************************************************************************)
(* Which versions a CVE affects: isVersionInRange and                      *)
(* isPackageAffectedByEntries of                                           *)
(* src/server/src/services/vulnerability-scanner.ts.  A version is a       *)
(* number: compareVersions orders them, the text is left out.              *)
(*                                                                         *)
(* A range is a sequence of events [kind, at]: introduced, fixed or        *)
(* last_affected at a version.                                             *)
(***************************************************************************)
EXTENDS Naturals, Sequences, FiniteSets, SequencesExt

None == 0   \* no lower bound: introduced is null

\* Faulty: the upper bound always belongs to it.
versionUpTo(v, lower, upper, inclusive) ==
  /\ lower # None => v >= lower
  /\ v <= upper

versionBetween(v, lower, upper, inclusive) ==
  /\ lower # None => v >= lower
  /\ IF inclusive THEN v <= upper ELSE v < upper

\* The loop over the events: the last version introduced, and whether an
\* interval that was closed holds the version.
AfterEvent(v, state, event) ==
  CASE event.kind = "introduced" -> [state EXCEPT !.introduced = event.at]
    [] event.kind = "fixed" ->
         [introduced |-> None,
          hit |-> state.hit \/ versionBetween(v, state.introduced, event.at, FALSE)]
    [] event.kind = "last_affected" ->
         [introduced |-> None,
          hit |-> state.hit \/ versionBetween(v, state.introduced, event.at, TRUE)]

isVersionInRange(v, events) ==
  LET end == FoldLeft(LAMBDA state, event : AfterEvent(v, state, event),
                      [introduced |-> None, hit |-> FALSE], events)
  IN  end.hit \/ (end.introduced # None /\ v >= end.introduced)

\* An entry names a package, perhaps an ecosystem, versions and ranges; a
\* package whose manager maps to no ecosystem matches any.
isAffected(pkg, entries) ==
  \E entry \in entries :
    /\ entry.name = pkg.name
    /\ "none" \in {entry.ecosystem, pkg.ecosystem} \/ entry.ecosystem = pkg.ecosystem
    /\ \/ pkg.version \in entry.versions
       \/ \E events \in entry.ranges : isVersionInRange(pkg.version, events)
       \/ entry.ranges = {} /\ entry.versions = {}

-----------------------------------------------------------------------------
(* The reference: what the OSV schema says of events in order of version.  *)

\* A version is affected if the last event at or before it introduces, or if
\* it is the last affected version itself.
Reference(v, events) ==
  LET Before == {i \in DOMAIN events : events[i].at <= v}
  IN  Before # {} /\
      LET last == events[Cardinality(Before)]
      IN  \/ last.kind = "introduced"
          \/ last.kind = "last_affected" /\ last.at = v

\* Ranges as OSV publishes them: versions rise, an introduction comes first
\* and alternates with its end.
WellFormed(events) ==
  \A i \in DOMAIN events :
    /\ (events[i].kind = "introduced") <=> (i % 2 = 1)
    /\ \A j \in 1..(i - 1) : events[j].at < events[i].at

=============================================================================
