--------------------------- MODULE FlowsAndPackages ---------------------------
(***************************************************************************)
(* The analyses of an audit together with the two that follow code and     *)
(* manifests by recursion: which flows of input are reported, and which    *)
(* packages are.  A model of Analyses takes its operators from here.       *)
(***************************************************************************)
EXTENDS Analyses

X == INSTANCE Taint
I == INSTANCE Deps

-----------------------------------------------------------------------------
\* What holds of the findings about declared packages.
NothingGuessed(in, declared, value) ==
    LET Version(d) == <<d.eco, d.key, d.version>>
        Affected(d) == I!Exact(d.version) /\ I!KnownTo(in.world.osv, Version(d)) # {}
        Abandoned(d) ==
            /\ <<d.eco, d.key>> \in DOMAIN in.world.registry
            /\ LET told == in.world.registry[<<d.eco, d.key>>]
               IN told.deprecated \/ told.age > in.limits.age
        followed == \A file \in Range(in.files) : \A m \in Range(file.managed) : I!IsLiteral(m.group)
    IN /\ \A f \in value.vulnerable :
              /\ in.ask_osv /\ \E d \in declared : Version(d) = Version(f) /\ Affected(d)
              /\ f.ids = I!KnownTo(in.world.osv, Version(f))
       /\ \A f \in value.unmaintained :
              /\ in.ask_registries
              /\ \E d \in declared : d.direct /\ <<d.eco, d.key>> = <<f.eco, f.key>> /\ Abandoned(d)
              /\ f.rule = "dep.deprecated" => in.world.registry[<<f.eco, f.key>>].deprecated
       /\ followed /\ value.queried /\ ~value.truncated
          /\ Cardinality({Version(d) : d \in {e \in declared : I!Exact(e.version)}}) <= in.limits.queries
              => \A d \in declared : Affected(d) => \E f \in value.vulnerable : Version(f) = Version(d)
       /\ in.ask_registries /\ ~value.truncated /\ (\A d \in declared : d.direct)
          /\ Cardinality({Version(d) : d \in declared}) <= in.limits.releases
              => \A d \in declared : Abandoned(d) =>
                     \E f \in value.unmaintained : <<f.eco, f.key>> = <<d.eco, d.key>>

\* A package is said to be vulnerable or abandoned only in a version, and under a name,
\* that a manifest declares, and only as OSV and its registry say; and if they were asked
\* and no limit was reached, every affected version is said to be that is declared, and
\* every abandoned package, where no lock is in the way.
\* Left out is a Maven group that is managed under a property (deps.py, parse_pom).
PackagesNeverGuessed ==
    Answered("dependencies") => NothingGuessed(asked.in, I!Declared(asked.in.files), answer.value)

\* What others were asked, and did not answer, stays unknown.
OutsideNeverGuessed == GitHubNeverGuessed /\ PackagesNeverGuessed

\* What is said to come to a dangerous call of a file.
Said(i) == {<<x.flow.kind, x.flow.sink>> : x \in {y \in Range(answer.value.flows) :
                                                     y.file = asked.in[i].name}}

\* In code that the analysis says it follows, up to three calls deep and with as many
\* steps as it keeps, input comes to a dangerous call that is reported, on some way
\* through the code, unless it passes from one branch of an if to the other, or from one
\* that returns (OnTheWay); and where input comes to a dangerous call that is reported,
\* unless a branch overwrote it that the way does not take, or a loop brought it back
\* (NothingPassedBy).
FlowsAreFollowed ==
    Answered("taint") =>
    \A i \in DOMAIN asked.in :
        LET file == asked.in[i]
        IN ~file.skipped /\ X!FollowedIn(file) /\ X!Short(file.code) /\ ~answer.value.truncated =>
               /\ X!OnTheWayIn(file) => Said(i) \subseteq X!ReachedIn(file)
               /\ X!NonePassedByIn(file) => X!ReachedIn(file) \subseteq Said(i)

\* What is reported is input that comes to a dangerous call, however long its way is.
ReportedFlowsAreReal ==
    Answered("taint") =>
    \A i \in DOMAIN asked.in :
        X!FollowedIn(asked.in[i]) /\ X!OnTheWayIn(asked.in[i]) => Said(i) \subseteq X!ReachedIn(asked.in[i])

=============================================================================
