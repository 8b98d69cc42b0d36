------------------------------ MODULE Evidence ------------------------------
(***************************************************************************)
(* The check of a finding's snippet against the file it says it quotes.    *)
(*                                                                         *)
(* A line is a sequence of tokens without blanks, a blank line the empty   *)
(* one.  A backend may quote lines with their numbers, and the server has  *)
(* replaced secrets in what it stored by a mask that tells them apart.     *)
(***************************************************************************)
EXTENDS Integers, Sequences, FiniteSets, SequencesExt

Secrets == {"s1", "s2"}
Mask == [s1 |-> "[s1]", s2 |-> "[s2]"]
Masks == {Mask[s] : s \in Secrets}

TokenChars == 3
MinSingleLineChars == 6

\* The lines that are not blank, each in what is made of it.
Nonblank(lines, made) ==
    FlattenSeq([i \in DOMAIN lines |-> IF lines[i] = <<>> THEN <<>> ELSE <<made[i]>>])

\* The lines of a snippet, without their numbers if all of them have one.
SnippetLines(snippet) ==
    LET all == \A i \in DOMAIN snippet : snippet[i].numbered \/ snippet[i].tokens = <<>>
        Text(l) == IF l.numbered /\ ~all THEN <<"number">> \o l.tokens ELSE l.tokens
        texts == [i \in DOMAIN snippet |-> Text(snippet[i])]
    IN Nonblank(texts, texts)

\* Whether a line of the file shows a quoted one.  Only the first place where a
\* mask has some secret under it is tried.
Matches(quote, line, mode) ==
    LET Fits(q, t) == q = t \/ (q \in Masks /\ t \in Secrets)
        Is(q, t) == q = t \/ (t \in Secrets /\ q = Mask[t])
        last == Len(line) - Len(quote)
        places == CASE mode = "inside" -> 0..last
                    [] mode = "prefix" -> {0}
                    [] mode = "suffix" -> {last}
                    [] mode = "equal" -> IF last = 0 THEN {0} ELSE {}
        fit == {p \in places : 0 <= p /\ p <= last
                               /\ \A i \in DOMAIN quote : Fits(quote[i], line[p + i])}
        masked == \E i \in DOMAIN quote : quote[i] \in Masks
        tried == IF masked THEN {p \in fit : \A r \in fit : p <= r} ELSE fit
    IN \E p \in tried : \A i \in DOMAIN quote : Is(quote[i], line[p + i])

Modes(wanted) ==
    LET n == Len(wanted)
    IN IF n = 1 THEN <<IF TokenChars * Len(wanted[1]) < MinSingleLineChars THEN "equal" ELSE "inside">>
       ELSE [k \in 1..n |-> IF k = 1 THEN "suffix" ELSE IF k = n THEN "prefix" ELSE "equal"]

\* The lines of the file that are not blank, numbered from first.
Kept(lines, first) ==
    Nonblank(lines, [i \in DOMAIN lines |-> [at |-> first + i - 1, text |-> lines[i]]])

\* After how many of the lines the wanted ones follow.
Starts(wanted, kept) ==
    {s \in 0..Len(kept) - Len(wanted) :
        \A k \in DOMAIN wanted : Matches(wanted[k], kept[s + k].text, Modes(wanted)[k])}

\* Of several places, the one nearest to the hint, or the first.
Far(s, kept, hint) ==
    IF hint = 0 THEN 0
    ELSE IF kept[s + 1].at < hint THEN hint - kept[s + 1].at ELSE kept[s + 1].at - hint
Nearest(starts, kept, hint) ==
    CHOOSE s \in starts : \A r \in starts :
        \/ Far(s, kept, hint) < Far(r, kept, hint)
        \/ Far(s, kept, hint) = Far(r, kept, hint) /\ s <= r

\* Where the snippet is in lines of the file that start at number first.
Locate(snippet, lines, hint, first) ==
    LET wanted == SnippetLines(snippet)
        kept == Kept(lines, first)
        starts == Starts(wanted, kept)
        best == Nearest(starts, kept, hint)
    IN IF wanted = <<>> \/ starts = {} THEN <<>>
       ELSE <<kept[best + 1].at, kept[best + Len(wanted)].at>>

\* The ranges of the finding's file that its request carried, of all requests if it
\* names none.  Each part of the manifest has the file's ranges in it.
SentRanges(manifest, chunk) ==
    FlattenSeq([k \in DOMAIN manifest.parts |->
                   LET p == manifest.parts[k]
                   IN IF chunk # 0 /\ p.index # chunk THEN <<>> ELSE p.ranges])

\* What a range of the file holds.
Cut(file, r) ==
    SubSeq(file.lines, r[1], IF r[2] < Len(file.lines) THEN r[2] ELSE Len(file.lines))

\* Mutant: a place is counted from the start of the range it is in.
FromRange(file, finding, r) == Locate(finding.snippet, Cut(file, r), finding.line, 1)

\* Where a range of the file shows the snippet.
InRange(file, finding, r) == Locate(finding.snippet, Cut(file, r), finding.line, r[1])

\* The ranges where the snippet may be: the whole file if there is no manifest.
Ranges(file, finding, manifest) ==
    IF ~manifest.known THEN <<<<1, Len(file.lines)>>>> ELSE SentRanges(manifest, finding.chunk)

\* What is stored of a finding: where its snippet is, and whether it stays verified.
\* It never becomes so.
Check(file, finding, manifest) ==
    LET ranges == Ranges(file, finding, manifest)
        hits == IF file.readable THEN {i \in DOMAIN ranges : InRange(file, finding, ranges[i]) # <<>>}
                ELSE {}
    IN IF finding.snippet = <<>> THEN [lines |-> <<>>, verified |-> finding.verified]
       ELSE IF hits = {} THEN [lines |-> <<>>, verified |-> FALSE]
       ELSE [lines |-> InRange(file, finding, ranges[CHOOSE i \in hits : \A j \in hits : i <= j]),
             verified |-> finding.verified]

=============================================================================
