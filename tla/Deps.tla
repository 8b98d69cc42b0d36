-------------------------------- MODULE Deps --------------------------------
(***************************************************************************)
(* What a repository depends on, and what others say of it: OSV of known   *)
(* vulnerabilities, the registries of releases and deprecation.            *)
(*                                                                         *)
(* A manifest is given by what its parser sees in it, in the order of its  *)
(* text.  A version is a sequence of literal parts: empty if there is      *)
(* none, exact unless "range" is among them.  The name of a Python package *)
(* is its canonical form and its spelling.  The limits on how much is kept *)
(* and asked come with the input, and so do the world's answers: those it  *)
(* would give, and the calls that fail.                                    *)
(***************************************************************************)
EXTENDS Integers, Sequences, FiniteSets, SequencesExt

Exact(version) == version # <<>> /\ "range" \notin Range(version)

PypiName(name) == name[1]
Key(c) == IF c.eco = "PyPI" THEN PypiName(c.name) ELSE c.name

NotAsked == [known |-> FALSE, of |-> {}]

Component(eco, name, version, direct, file, scope, line) ==
    [eco |-> eco, name |-> name, version |-> version, direct |-> direct, file |-> file.name,
     scope |-> scope, line |-> line, vulns |-> NotAsked, maintenance |-> NotAsked]

Signal(rule, file, line) == [rule |-> rule, file |-> file.name, line |-> line]

\* The first of a sequence, at most so many.
Firsts(seq, limit) == [i \in 1..(IF Len(seq) < limit THEN Len(seq) ELSE limit) |-> seq[i]]

-----------------------------------------------------------------------------
(***************************************************************************)
(* The manifests                                                           *)
(***************************************************************************)

ParseRequirements(file) ==
    LET Row(n) ==
            LET l == file.lines[n]
            IN IF (l.kind = "url" /\ l.name # <<>>) \/ l.kind = "requirement"
               THEN <<Component("PyPI", l.name, IF l.kind = "url" THEN <<>> ELSE l.version,
                                TRUE, file, file.scope, n)>>
               ELSE <<>>
        Said(n) ==
            LET rules == [extra_index |-> "dep.extra_index_url", index |-> "dep.custom_index",
                          url |-> "dep.url_source"]
                kind == file.lines[n].kind
            IN IF kind \in DOMAIN rules THEN <<Signal(rules[kind], file, n)>> ELSE <<>>
    IN [comps |-> FlattenSeq([n \in DOMAIN file.lines |-> Row(n)]), signals |-> FlattenSeq([n \in DOMAIN file.lines |-> Said(n)])]

\* A name is at the first line that has it, in whichever section that is.
LineOf(file, name) ==
    CHOOSE n \in DOMAIN file.lines : /\ file.lines[n].name = name
                                     /\ \A k \in 1..n - 1 : file.lines[k].name # name

\* One section after another.
ParsePackageJson(file) ==
    LET scopes == <<<<"dependencies", "runtime">>, <<"dev", "dev">>,
                    <<"optional", "optional">>, <<"peer", "runtime">>>>
        In(s) == SelectSeq(file.lines, LAMBDA l : l.section = scopes[s][1])
        Rows(s) == [i \in DOMAIN In(s) |->
            Component("npm", In(s)[i].name, In(s)[i].version, TRUE, file, scopes[s][2],
                      LineOf(file, In(s)[i].name))]
        Said(s) == LET urls == SelectSeq(In(s), LAMBDA l : l.url)
                   IN [i \in DOMAIN urls |->
                          Signal("dep.url_source", file, LineOf(file, urls[i].name))]
    IN [comps |-> FlattenSeq([s \in 1..4 |-> Rows(s)]),
        signals |-> FlattenSeq([s \in 1..4 |-> Said(s)])]

\* Every package there is, without a line; hosts that packages come from.
ParsePackageLock(file) ==
    LET hosts == {l.host : l \in Range(file.lines)} \ {"none"}
        Row(n) == <<Component("npm", file.lines[n].name, file.lines[n].version, FALSE, file,
                              file.lines[n].scope, 0)>>
        Said(n) == IF file.lines[n].http THEN <<Signal("dep.insecure_resolved", file, n)>>
                   ELSE <<>>
    IN [comps |-> FlattenSeq([n \in DOMAIN file.lines |-> Row(n)]),
        signals |-> (IF Cardinality(hosts) > 1 THEN <<Signal("dep.mixed_registries", file, 0)>>
                     ELSE <<>>) \o FlattenSeq([n \in DOMAIN file.lines |-> Said(n)])]

\* A line counts in a block of requirements, or if it is one itself.
ParseGoMod(file) ==
    LET Step(s, n) ==
            LET l == file.lines[n]
            IN IF l.kind \in {"open", "close"} THEN [s EXCEPT !.block = l.kind = "open"]
               ELSE IF s.block \/ l.kind = "single"
                    THEN [s EXCEPT !.comps = Append(@, Component("Go", l.name, l.version,
                                                 ~l.indirect, file, "runtime", n))]
               ELSE s
    IN [comps |-> FoldLeft(Step, [block |-> FALSE, comps |-> <<>>],
                           [n \in DOMAIN file.lines |-> n]).comps,
        signals |-> <<>>]

\* A value is a sequence of literal parts and references to properties.
IsLiteral(value) == \A i \in DOMAIN value : ~value[i].ref
Literal(value) == [i \in DOMAIN value |-> value[i].text]
AsValue(literal) == [i \in DOMAIN literal |-> [ref |-> FALSE, text |-> literal[i]]]

\* How many properties may refer to one another.
MaxDepth == 5

\* Mutant: a property that is not defined here is left out of the version.
RECURSIVE ResolveAround(_, _, _)
ResolveAround(value, props, depth) ==
    IF depth > MaxDepth THEN <<>>
    ELSE FlattenSeq([i \in DOMAIN value |->
             IF ~value[i].ref THEN <<value[i].text>>
             ELSE IF value[i].text \notin DOMAIN props THEN <<>>
             ELSE ResolveAround(props[value[i].text], props, depth + 1)])

\* The literal text of a value, or nothing if any of it is unknown or circular.
RECURSIVE Resolve(_, _, _)
Resolve(value, props, depth) ==
    IF IsLiteral(value) THEN Literal(value)
    ELSE IF depth > MaxDepth THEN <<>>
    ELSE LET part == [i \in DOMAIN value |->
                 IF ~value[i].ref THEN <<value[i].text>>
                 ELSE IF value[i].text \notin DOMAIN props THEN <<>>
                 ELSE Resolve(props[value[i].text], props, depth + 1)]
         IN IF \E i \in DOMAIN part : part[i] = <<>> THEN <<>> ELSE FlattenSeq(part)

\* A managed version is of what it is written for as it stands, and the last one
\* that is known counts.
Managed(file, name) ==
    LET versions == SelectSeq(file.managed, LAMBDA m :
            <<m.group, m.artifact>> = name /\ Resolve(m.version, file.props, 0) # <<>>)
    IN IF versions = <<>> THEN <<>> ELSE Resolve(Last(versions).version, file.props, 0)

PomName(d, group) == <<IF group # <<>> THEN AsValue(group) ELSE d.group, d.artifact>>

\* A dependency without a version of its own has the managed one.
PomRow(file, n, d, name) ==
    Component("Maven", name,
              IF d.version # <<>> THEN Resolve(d.version, file.props, 0) ELSE Managed(file, name),
              TRUE, file, IF d.test THEN "dev" ELSE "runtime", n)

ParsePom(file) ==
    [comps |-> [n \in DOMAIN file.lines |->
        PomRow(file, n, file.lines[n],
               PomName(file.lines[n], Resolve(file.lines[n].group, file.props, 0)))],
     signals |-> <<>>]

-----------------------------------------------------------------------------
(***************************************************************************)
(* The inventory                                                           *)
(***************************************************************************)

Parse(file) ==
    CASE file.format = "requirements" -> ParseRequirements(file)
      [] file.format = "package_json" -> ParsePackageJson(file)
      [] file.format = "package_lock" -> ParsePackageLock(file)
      [] file.format = "go_mod" -> ParseGoMod(file)
      [] file.format = "pom" -> ParsePom(file)

Places(seq) == [i \in DOMAIN seq |-> i]

\* What is locked and also declared is direct.
Marked(all) ==
    LET declared == {<<c.eco, Key(c)>> : c \in {d \in Range(all) : d.direct}}
    IN [i \in DOMAIN all |->
           [all[i] EXCEPT !.direct = @ \/ <<all[i].eco, Key(all[i])>> \in declared]]

\* Of each name and version there is one row, the first.
Unique(all) ==
    LET Same(c, d) == <<c.eco, Key(c), c.version>> = <<d.eco, Key(d), d.version>>
        First(i) == \A j \in 1..i - 1 : ~Same(all[j], all[i])
        places == SelectSeq(Places(all), First)
    IN [k \in DOMAIN places |-> all[places[k]]]

Limited(unique, signals, limits) ==
    [comps |-> Firsts(unique, limits.components), signals |-> Firsts(signals, limits.signals),
     truncated |-> Len(unique) > limits.components]

InventoryOf(parsed, limits) ==
    Limited(Unique(Marked(FlattenSeq([i \in DOMAIN parsed |-> parsed[i].comps]))),
            FlattenSeq([i \in DOMAIN parsed |-> parsed[i].signals]), limits)

\* OSV knows nothing of most versions.
KnownTo(osv, version) == IF version \in DOMAIN osv THEN osv[version] ELSE {}

\* Exact versions are asked about in batches, and then of each vulnerability what
\* there is to say of it.  If a batch fails nothing is known; if what is said of a
\* vulnerability cannot be had, it stands without.
AskOsv(comps, asked, world, limits) ==
    LET batches == (Cardinality(asked) + limits.batch - 1) \div limits.batch
        Ids(c) == KnownTo(world.osv, <<c.eco, Key(c), c.version>>)
        ids == UNION {Ids(comps[i]) : i \in asked}
        told == {v \in ids : Cardinality({u \in ids : u < v}) < limits.details} \ world.untold
        Vuln(v) == [id |-> v, severity |-> IF v \in told THEN world.severity[v] ELSE "none"]
    IN IF \E k \in 1..batches : k \in world.refused
       THEN [queried |-> FALSE, comps |-> comps]
       ELSE [queried |-> TRUE, comps |-> [i \in DOMAIN comps |->
                IF i \in asked
                THEN [comps[i] EXCEPT !.vulns = [known |-> TRUE,
                                                 of |-> {Vuln(v) : v \in Ids(comps[i])}]]
                ELSE comps[i]]]

QueryOsv(comps, world, limits) ==
    AskOsv(comps, Range(Firsts(SelectSeq(Places(comps), LAMBDA i : Exact(comps[i].version)),
                               limits.queries)), world, limits)

\* A package that its registry does not answer about stays unknown.  That of Rust
\* knows no deprecation.
QueryAbandoned(comps, world, limits) ==
    LET asked == Range(Firsts(SelectSeq(Places(comps), LAMBDA i :
                     comps[i].direct /\ comps[i].eco \in {"PyPI", "npm", "crates.io"}), limits.releases))
        Name(c) == <<c.eco, Key(c)>>
        Of(c) == world.registry[Name(c)]
        Info(c) == (IF Of(c).age > limits.age THEN {"stale"} ELSE {})
                   \cup (IF Of(c).deprecated /\ c.eco # "crates.io" THEN {"deprecated"} ELSE {})
    IN [i \in DOMAIN comps |->
           IF i \in asked /\ Name(comps[i]) \in DOMAIN world.registry
           THEN [comps[i] EXCEPT !.maintenance = [known |-> TRUE, of |-> Info(comps[i])]]
           ELSE comps[i]]

\* As grave as the gravest advisory that says how grave it is.
VulnerabilityFindings(comps) ==
    LET Worst(c) ==
            LET said == {v.severity : v \in c.vulns.of}
            IN IF "high" \in said THEN "high" ELSE IF "low" \in said THEN "low" ELSE "medium"
    IN {[eco |-> c.eco, key |-> Key(c), version |-> c.version, severity |-> Worst(c),
         ids |-> {v.id : v \in c.vulns.of}] : c \in {d \in Range(comps) : d.vulns.of # {}}}

\* A finding is at a line of a manifest.
MaintenanceFindings(comps) ==
    {[eco |-> c.eco, key |-> Key(c), file |-> c.file, line |-> c.line,
      rule |-> IF "deprecated" \in c.maintenance.of THEN "dep.deprecated" ELSE "dep.stale"] :
        c \in {d \in Range(comps) : d.maintenance.of # {} /\ d.line # 0}}

Recorded(inv, queried, comps) ==
    [comps |-> comps, signals |-> inv.signals, truncated |-> inv.truncated, queried |-> queried,
     vulnerable |-> VulnerabilityFindings(comps), unmaintained |-> MaintenanceFindings(comps)]

\* The module of an audit: others are asked if the instance says so.
AskOthers(in, inv, osv) ==
    Recorded(inv, osv.queried, IF in.ask_registries THEN QueryAbandoned(osv.comps, in.world, in.limits)
                               ELSE osv.comps)
AskAbout(in, inv) ==
    AskOthers(in, inv, IF in.ask_osv THEN QueryOsv(inv.comps, in.world, in.limits)
                       ELSE [queried |-> FALSE, comps |-> inv.comps])

RecordDependencies(in) ==
    AskAbout(in, InventoryOf([i \in DOMAIN in.files |-> Parse(in.files[i])], in.limits))

-----------------------------------------------------------------------------
(***************************************************************************)
(* What the manifests mean                                                 *)
(***************************************************************************)

\* A value with its references replaced until there is nothing to replace, and nothing
\* if that leaves a reference.
Replaced(value, props) ==
    LET Once(v, k) == FlattenSeq([i \in DOMAIN v |->
            IF v[i].ref /\ v[i].text \in DOMAIN props THEN props[v[i].text] ELSE <<v[i]>>])
    IN FoldLeft(Once, value, [k \in 1..Cardinality(DOMAIN props) + 1 |-> k])
Known(value) == IF IsLiteral(value) THEN value ELSE <<>>
Meaning(value, props) == Known(Replaced(value, props))

Pypi(l) == [eco |-> "PyPI", key |-> l.name[1], version |-> l.version, direct |-> TRUE]

Npm(l, direct) == [eco |-> "npm", key |-> l.name, version |-> l.version, direct |-> direct]

\* A block that begins before a line ends after it.
InBlock(file, n) ==
    \E k \in 1..n : /\ file.lines[k].kind = "open"
                    /\ \A j \in k + 1..n : file.lines[j].kind # "close"
Go(l) == [eco |-> "Go", key |-> l.name, version |-> l.version, direct |-> ~l.indirect]

\* A group is what it means, or itself if that is not known.
Group(value, props) == IF Meaning(value, props) = <<>> THEN value ELSE Replaced(value, props)
Maven(l, file, managed) ==
    LET Stated(m) == Meaning(m.version, file.props) # <<>>
    IN [eco |-> "Maven", key |-> <<Group(l.group, file.props), l.artifact>>, direct |-> TRUE,
        version |-> Literal(Meaning(
            IF l.version # <<>> THEN l.version
            ELSE IF SelectSeq(managed, Stated) = <<>> THEN <<>>
            ELSE Last(SelectSeq(managed, Stated)).version, file.props))]
ManagedFor(l, file) ==
    SelectSeq(file.managed, LAMBDA m :
        <<Group(m.group, file.props), m.artifact>> = <<Group(l.group, file.props), l.artifact>>)

\* The packages that a manifest declares, each with its version.
Declares(file) ==
    LET lines == Range(file.lines)
    IN CASE file.format = "requirements" ->
              {Pypi(l) : l \in {k \in lines : k.kind \in {"requirement", "url"} /\ k.name # <<>>}}
         [] file.format = "package_json" -> {Npm(l, TRUE) : l \in lines}
         [] file.format = "package_lock" -> {Npm(l, FALSE) : l \in lines}
         [] file.format = "go_mod" ->
              {Go(file.lines[n]) : n \in {k \in DOMAIN file.lines :
                  \/ file.lines[k].kind = "single"
                  \/ file.lines[k].kind = "entry" /\ InBlock(file, k)}}
         [] file.format = "pom" -> {Maven(l, file, ManagedFor(l, file)) : l \in lines}

Declared(files) == UNION {Declares(f) : f \in Range(files)}

=============================================================================
