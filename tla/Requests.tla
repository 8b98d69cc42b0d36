------------------------------ MODULE Requests ------------------------------
(***************************************************************************)
(* How a checkout becomes requests to a backend, and their answers become  *)
(* findings and a report of what was audited.                              *)
(*                                                                         *)
(* A file is a number of lines of one width, with a risk tier, 1 the       *)
(* riskiest, and what tells whether it is sent.  A request has room for a  *)
(* number of characters.  A backend answers each request with findings,    *)
(* with something that is none, or not at all.                             *)
(***************************************************************************)
EXTENDS Integers, Sequences, FiniteSets, SequencesExt

High == 4                         \* tiers up to this one are of high risk
CodeTier == 5

-----------------------------------------------------------------------------
(***************************************************************************)
(* The inventory                                                           *)
(***************************************************************************)

\* A path of a risky tier is sent whatever its name, and a script is an entry
\* point whatever its tier.
Wanted(f) == f.tier <= 2 \/ f.known

EntryOf(f) ==
    LET why == CASE f.directory # "no" -> f.directory
                 [] f.directory = "no" /\ f.ignored -> "ignored"
                 [] f.directory = "no" /\ ~f.ignored /\ f.link -> "link"
                 [] OTHER -> IF ~Wanted(f) /\ ~f.script THEN "not_source"
                             ELSE IF ~f.text THEN "not_text" ELSE "none"
        tier == IF why \in {"none", "not_text"} /\ ~Wanted(f) THEN 3 ELSE f.tier
    IN [file |-> f.name, tier |-> tier, why |-> why, lines |-> f.lines, width |-> f.width,
        hint |-> f.hint, shape |-> f.shape]

Candidate(e) == e.why = "none"

\* A file is sent before another: by risk, code that hints at something before other
\* code, and by name.
Sooner(files, i, j) ==
    LET one == EntryOf(files[i])
        other == EntryOf(files[j])
        hint(e) == IF e.tier = CodeTier THEN e.hint ELSE 0
    IN \/ one.tier < other.tier
       \/ one.tier = other.tier /\ hint(one) < hint(other)
       \/ one.tier = other.tier /\ hint(one) = hint(other) /\ i < j

\* The files in the order in which they are sent.  A diff leaves all others out.
Inventory(files, only) ==
    LET asked == {i \in DOMAIN files : only = {} \/ files[i].name \in only}
        nth(k) == CHOOSE i \in asked : Cardinality({j \in asked : Sooner(files, j, i)}) = k - 1
    IN [k \in 1..Cardinality(asked) |-> EntryOf(files[nth(k)])]

MaxFileChars == 60000
PaddingMinGroup == 5
PaddingMinChars == 64

Size(e) == IF e.lines = 0 THEN 0 ELSE e.lines * e.width + e.lines - 1

\* The files that look like filler: one of many alike, or far larger than the rest.
Filler(entries) ==
    LET candidates == {i \in DOMAIN entries : Candidate(entries[i])}
        alike(i) == {j \in candidates : /\ entries[j].shape = entries[i].shape
                                        /\ Size(entries[j]) >= PaddingMinChars}
        sizes == SetToSortSeq(candidates, LAMBDA i, j : \/ Size(entries[i]) < Size(entries[j])
                                                        \/ Size(entries[i]) = Size(entries[j])
                                                           /\ i < j)
        middle == (Len(sizes) + 1) \div 2
        twice == IF Len(sizes) % 2 = 1 THEN 2 * Size(entries[sizes[middle]])
                 ELSE Size(entries[sizes[middle]]) + Size(entries[sizes[middle + 1]])
        copied == {i \in candidates : /\ Size(entries[i]) >= PaddingMinChars
                                      /\ Cardinality(alike(i)) >= PaddingMinGroup}
        outsized == {i \in candidates :
                        \/ Size(entries[i]) > MaxFileChars
                        \/ Size(entries[i]) > 20000 /\ twice > 0 /\ 2 * Size(entries[i]) > 10 * twice}
    IN [copied |-> copied, outsized |-> IF candidates = {} THEN {} ELSE outsized,
        candidates |-> candidates]

\* Filler is most of what there is to read.
PaddingSuspected(entries) ==
    LET f == Filler(entries)
        total(is) == FoldSet(LAMBDA i, sum : sum + Size(entries[i]), 0, is)
        copies == Cardinality(f.copied)
    IN f.candidates # {} /\ (\/ copies >= 20 \/ 10 * copies >= 3 * Cardinality(f.candidates)
                             \/ 2 * total(f.outsized) > total(f.candidates))

-----------------------------------------------------------------------------
(***************************************************************************)
(* The requests                                                            *)
(***************************************************************************)

\* What stands for a path in a request, and for a line besides its text.
PathChars == 20
PerLine == 8
HeadChars == PathChars + 64

\* As many of a file's first lines as fit, or the start of its first line.
Segment(e, limit) ==
    LET fit == IF limit < 0 THEN 0 ELSE limit \div (e.width + PerLine)
        short == limit - PerLine
    IN IF e.lines = 0 THEN [lines |-> 0, chars |-> 0, cut |-> FALSE]
       ELSE IF fit = 0
            THEN [lines |-> 1, chars |-> IF short < 1 THEN 1 ELSE short, cut |-> TRUE]
       ELSE LET kept == IF fit < e.lines THEN fit ELSE e.lines
            IN [lines |-> kept, chars |-> kept * e.width + kept - 1, cut |-> FALSE]

\* The room it is counted for.
BlockSize(seg) == HeadChars + seg.chars + PerLine * (IF seg.lines = 0 THEN 1 ELSE seg.lines)

Capacity(budget, overhead) ==
    IF budget - overhead < 2000 THEN 2000 ELSE budget - overhead

\* A file goes to the first request that has room for it, or to a new one, as long as
\* there may be more.  A request that is opened stays.
Place(plan, e, capacity, maxChunks) ==
    LET perFile == IF MaxFileChars < capacity THEN MaxFileChars ELSE capacity
        seg == Segment(e, perFile - HeadChars)
        size == BlockSize(seg)
        room == {k \in DOMAIN plan.chunks : plan.chunks[k].used + size <= capacity}
        new == room = {} /\ Len(plan.chunks) < maxChunks
        chunks == IF new THEN Append(plan.chunks, [used |-> 0, segments |-> <<>>])
                  ELSE plan.chunks
        target == IF room = {} THEN Len(chunks) ELSE CHOOSE k \in room : \A j \in room : k <= j
        full == room = {} /\ (~new \/ size > capacity)
        part == [file |-> e.file, seg |-> seg, partial |-> seg.cut \/ seg.lines < e.lines]
    IN IF ~Candidate(e) THEN plan
       ELSE IF full THEN [chunks |-> chunks, left |-> plan.left \cup {e.file}]
       ELSE [chunks |-> [chunks EXCEPT ![target] =
                            [used |-> @.used + size, segments |-> Append(@.segments, part)]],
             left |-> plan.left]

\* One file after another.
PlanChunks(entries, budget, maxChunks, overhead) ==
    LET plan[k \in 0..Len(entries)] ==
            IF k = 0 THEN [chunks |-> <<>>, left |-> {}]
            ELSE Place(plan[k - 1], entries[k], Capacity(budget, overhead), maxChunks)
    IN plan[Len(entries)]

-----------------------------------------------------------------------------
(***************************************************************************)
(* The answers                                                             *)
(***************************************************************************)

\* Not verified after verified, then by severity.
Rank(f) == <<IF f.verified THEN 0 ELSE 1, f.severity>>
Better(f, g) == Rank(f)[1] < Rank(g)[1] \/ (Rank(f)[1] = Rank(g)[1] /\ Rank(f)[2] < Rank(g)[2])

\* One finding of a fingerprint: the best-backed, in the place of the first.
Dedupe(findings) ==
    LET Add(kept, f) ==
            LET at == {i \in DOMAIN kept : kept[i].print = f.print}
                i == CHOOSE i \in at : TRUE
            IN IF at = {} THEN Append(kept, f)
               ELSE IF Better(f, kept[i]) THEN [kept EXCEPT ![i] = f] ELSE kept
    IN FoldLeft(Add, <<>>, findings)

\* Mutant: a request that failed counts as sent.
CoverageSent(entries, plan, failed) ==
    [i \in DOMAIN entries |->
        LET e == entries[i]
            parts == {p \in UNION {Range(plan.chunks[k].segments) : k \in DOMAIN plan.chunks} :
                         p.file = e.file}
        IN [file |-> e.file, tier |-> e.tier, audited |-> Candidate(e) /\ parts # {},
            partly |-> \E p \in parts : p.partial, why |-> e.why]]

\* One row for each file: audited, in part, or not, and why not.
Coverage(entries, plan, failed) ==
    [i \in DOMAIN entries |->
        LET e == entries[i]
            sent == {k \in DOMAIN plan.chunks :
                        \E p \in Range(plan.chunks[k].segments) : p.file = e.file}
            parts == {p \in UNION {Range(plan.chunks[k].segments) : k \in sent \ failed} :
                         p.file = e.file}
        IN [file |-> e.file, tier |-> e.tier, audited |-> Candidate(e) /\ parts # {},
            partly |-> \E p \in parts : p.partial,
            why |-> IF ~Candidate(e) THEN e.why
                    ELSE IF sent = {} THEN "left_out"
                    ELSE IF parts = {} THEN "failed" ELSE "audited"]]

\* Counts over the files; skipped directories are counted apart.
Summary(rows) ==
    LET files == {i \in DOMAIN rows : rows[i].why \notin {"directory", "ignored_directory"}}
        audited == {i \in files : rows[i].audited}
    IN [files |-> Cardinality(files), audited |-> Cardinality(audited),
        partial |-> Cardinality({i \in files : rows[i].partly}),
        not_audited |-> Cardinality(files \ audited),
        skipped_directories |-> Len(rows) - Cardinality(files),
        high_risk_not_audited |->
            Cardinality({i \in files \ audited : /\ rows[i].tier <= High
                                                 /\ rows[i].why \notin {"not_text", "ignored"}})]

\* What the backend makes of request k: it aborts, its answer is garbled, or there are
\* findings.  As long as no request has been answered, an abort is the backend's failure
\* and not that request's.
Read(s, k, answer) ==
    IF s.aborted THEN s
    ELSE CASE answer.kind = "aborts" ->
                 IF s.succeeded = {} THEN [s EXCEPT !.aborted = TRUE]
                 ELSE [s EXCEPT !.failed = @ \cup {k}]
           [] answer.kind = "garbled" -> [s EXCEPT !.failed = @ \cup {k}]
           [] answer.kind = "answers" ->
                 [s EXCEPT !.succeeded = @ \cup {k},
                           !.raw = @ \o [i \in DOMAIN answer.findings |->
                               [print |-> answer.findings[i].print, chunk |-> k,
                                verified |-> answer.findings[i].verified,
                                severity |-> answer.findings[i].severity]]]

\* One request after another.
ReadAll(count, answers) ==
    LET s[k \in 0..count] ==
            IF k = 0 THEN [aborted |-> FALSE, succeeded |-> {}, failed |-> {}, raw |-> <<>>]
            ELSE Read(s[k - 1], k, answers[k])
    IN s[count]

AuditRepository(entries, plan, answers) ==
    LET end == ReadAll(Len(plan.chunks), answers)
        rows == Coverage(entries, plan, end.failed)
    IN IF end.aborted \/ (plan.chunks # <<>> /\ end.succeeded = {})
       THEN [done |-> FALSE]
       ELSE [done |-> TRUE, raw |-> end.raw, findings |-> Dedupe(end.raw), failed |-> end.failed,
             coverage |-> rows, summary |-> Summary(rows), padding |-> PaddingSuspected(entries)]

-----------------------------------------------------------------------------
(***************************************************************************)
(* A request about the findings                                            *)
(***************************************************************************)

\* The strong findings, the gravest first, at most limit of them; what is sent is
\* numbered in this order.
Refutable(findings, limit) ==
    LET strong == {i \in DOMAIN findings : findings[i].verified /\ findings[i].complete
                                           /\ findings[i].located}
        before(i, j) == \/ findings[i].severity < findings[j].severity
                        \/ findings[i].severity = findings[j].severity /\ i < j
        order == SetToSortSeq(strong, before)
    IN SubSeq(order, 1, IF limit < Len(order) THEN limit ELSE Len(order))

Verdicts == {"false_positive", "holds", "unsure"}

\* The claim that each finding gets: the verdict of the answer with its number.
\* of is a function from numbers; a request that fails costs only the claims.
DevilsAdvocate(findings, limit, answer) ==
    LET sent == Refutable(findings, limit)
        number(i) == CHOOSE n \in DOMAIN sent : sent[n] = i
    IN [i \in DOMAIN findings |->
           IF /\ answer.kind = "answers" /\ i \in Range(sent)
              /\ number(i) \in DOMAIN answer.of /\ answer.of[number(i)] \in Verdicts
           THEN answer.of[number(i)] ELSE "none"]

\* The fixed findings that rules are asked for, in the order of fixed, and the
\* rules proposed, by fingerprint.
ProposeRules(fixed, known, limit, answer) ==
    LET ask == SelectSeq(fixed, LAMBDA f : f.fix /\ f.vulnerable /\ f.language /\ f.print \in known)
        sent == SubSeq(ask, 1, IF limit < Len(ask) THEN limit ELSE Len(ask))
        answered == IF answer.kind # "answers" THEN {}
                    ELSE {n \in DOMAIN sent : n \in DOMAIN answer.of /\ answer.of[n] # "none"}
    IN {<<sent[n].print, answer.of[n]>> : n \in answered}

=============================================================================
