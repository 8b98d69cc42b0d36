------------------------------- MODULE Canary -------------------------------
(***************************************************************************)
(* Decoys planted in a copy of one request, to see whether the auditor     *)
(* reports them.                                                           *)
(*                                                                         *)
(* A line of a file is the head of a top-level function, a decorator of    *)
(* one, some other line, or blank; a decoy's lines carry its number, those *)
(* of the file 0.  What the code draws at random is an argument: the order *)
(* of the files, the kinds and, of each decoy, the place.                  *)
(***************************************************************************)
EXTENDS Integers, Sequences, FiniteSets, Functions

\* Lines of a decoy, and whether it starts with a decorator.
Python == [sql_injection |-> 5, command_injection |-> 3, code_eval |-> 3,
           insecure_deserialization |-> 3, mcp_tool_exec |-> 4, path_traversal |-> 4]
Javascript == [sql_injection |-> 3, command_injection |-> 3, code_eval |-> 4, path_traversal |-> 4]
Templates(lang) == IF lang = "python" THEN Python ELSE Javascript
Decorated(kind) == kind = "mcp_tool_exec"
Gap(lang) == IF lang = "python" THEN 2 ELSE 1
Languages == {"python", "javascript", "typescript"}

Blank == [kind |-> "blank", of |-> 0]
Block(lang, kind, fn) ==
    LET head == IF Decorated(kind) THEN 2 ELSE 1
    IN [i \in 1..Templates(lang)[kind] |->
           [kind |-> IF i < head THEN "decorator" ELSE IF i = head THEN "head" ELSE "other",
            of |-> fn]]

\* How many lines may come before a new function: those above one there is, with its
\* decorators, or all.  A Python file that does not parse only has its end.
InsertionPoints(file) ==
    LET lines == file.lines
        heads == IF file.lang = "python" /\ ~file.parses THEN {}
                 ELSE {i \in DOMAIN lines : lines[i].kind = "head"}
        Above(i) == CHOOSE n \in 0..i - 1 :
                        /\ \A j \in n + 1..i - 1 : lines[j].kind = "decorator"
                        /\ n = 0 \/ lines[n].kind # "decorator"
    IN {Len(lines)} \cup {IF file.lang = "python" THEN Above(i) ELSE i - 1 : i \in heads}

WithoutEnd(lines) ==
    LET last == {i \in DOMAIN lines : lines[i].kind # "blank"}
    IN SubSeq(lines, 1, IF last = {} THEN 0 ELSE CHOOSE i \in last : \A j \in last : j <= i)

Plant(file, kind, fn, at) ==
    LET block == Block(file.lang, kind, fn)
        gap == [i \in 1..Gap(file.lang) |-> Blank]
    IN [file EXCEPT !.lines =
           IF at >= Len(@) THEN WithoutEnd(@) \o gap \o block \o <<Blank>>
           ELSE SubSeq(@, 1, at) \o block \o gap \o SubSeq(@, at + 1, Len(@))]

\* The lines of a decoy in the text: from its head, by its length.
Locate(file, fn, kind) ==
    LET heads == {i \in DOMAIN file.lines : file.lines[i] = [kind |-> "head", of |-> fn]}
        at == (CHOOSE i \in heads : \A j \in heads : i <= j) - IF Decorated(kind) THEN 1 ELSE 0
    IN IF heads = {} THEN <<0, 0>> ELSE <<at, at + Templates(file.lang)[kind] - 1>>

\* The n-th of some numbers, counted round.
Nth(numbers, n) ==
    CHOOSE x \in numbers :
        Cardinality({y \in numbers : y < x}) = (n - 1) % Cardinality(numbers)

\* One more decoy, of a kind there is none of yet: the i-th, into the file whose turn it
\* is.  The name of a decoy is in no text and no other's.  places picks an insertion point.
PlantNext(s, i, order, kinds, places) ==
    LET turns == {k \in DOMAIN order : s.files[order[k]].lang \in Languages}
        p == order[Nth(turns, i)]
        free == DOMAIN Templates(s.files[p].lang) \ s.taken
        wish == free \cap {kinds[i]}
        kind == CHOOSE k \in IF wish # {} THEN wish ELSE free : TRUE
        new == Plant(s.files[p], kind, i, Nth(InsertionPoints(s.files[p]), places[i]))
    IN IF turns = {} \/ free = {} THEN s
       ELSE [files |-> [s.files EXCEPT ![p] = new], taken |-> s.taken \cup {kind},
             decoys |-> Append(s.decoys, [file |-> p, kind |-> kind, fn |-> i,
                                          at |-> Locate(new, i, kind)])]

\* The state after each decoy.
Planting(files, count, order, kinds, places) ==
    LET after[i \in 0..count] ==
            IF i = 0 THEN [files |-> files, taken |-> {}, decoys |-> <<>>]
            ELSE PlantNext(after[i - 1], i, order, kinds, places)
    IN after[count]

\* Mutant: a decoy is where it was when it was planted.
PlantAllAsPlanted(files, count, order, kinds, places) ==
    LET end == Planting(files, count, order, kinds, places)
    IN [files |-> end.files, decoys |-> end.decoys]

PlantAll(files, count, order, kinds, places) ==
    LET end == Planting(files, count, order, kinds, places)
    IN [files |-> end.files,
        decoys |-> [i \in DOMAIN end.decoys |->
            [end.decoys[i] EXCEPT !.at = Locate(end.files[end.decoys[i].file],
                                                end.decoys[i].fn, end.decoys[i].kind)]]]

\* A finding names the decoy's function, or points near its lines.
Found(decoy, findings) ==
    \E f \in findings : /\ f.file = decoy.file
                        /\ f.names = decoy.fn \/ f.line \in (decoy.at[1] - 1)..(decoy.at[2] + 1)

Score(decoys, findings) ==
    [planted |-> Len(decoys), found |-> {i \in DOMAIN decoys : Found(decoys[i], findings)}]

\* A request that was answered and carried a whole file that decoys can go into.
Eligible(chunks) ==
    {k \in DOMAIN chunks : ~chunks[k].failed /\ \E s \in Range(chunks[k].segments) :
                              s.lang \in Languages /\ ~s.partial}

\* What is kept of the check: nothing of the answer but what it found.
CanaryCheck(chunks, limit, planted, answer) ==
    CASE limit <= 0 \/ Eligible(chunks) = {} -> [skipped |-> TRUE]
      [] limit > 0 /\ Eligible(chunks) # {} ->
             IF answer.kind # "answers" THEN [skipped |-> FALSE, error |-> TRUE]
             ELSE [skipped |-> FALSE, error |-> FALSE,
                   score |-> Score(planted.decoys, answer.findings)]

=============================================================================
