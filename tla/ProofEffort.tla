----------------------------- MODULE ProofEffort -----------------------------
(***************************************************************************)
(* The summary of what Dafny's proofs cost.  Dafny leaves one CSV file per *)
(* source with a row per proof effort; the summary reads them character by *)
(* character, fails on any effort that did not pass or cost more than the  *)
(* limit, and reports totals and the most expensive effort.  Names of      *)
(* efforts hold whatever the sources do, and a killed run leaves a file    *)
(* that is cut off.  Seconds, and the layout of the report, are left out.  *)
(***************************************************************************)
EXTENDS Integers, Sequences

Ext == INSTANCE SequencesExt

CONSTANTS
    Character,      \* what a text is made of
    Directories,    \* what the directory may hold: sequences of logs
    Limit,          \* the resource limit of one effort
    Header,         \* the five column names
    Passed, Took    \* the outcome, and the duration, of an effort that counts

Quote   == "quote"
Comma   == "comma"
Newline == "newline"
Return  == "return"
Digit   == [ d \in {"0", "1", "2", "3", "4", "5", "6", "7", "8", "9"} |->
               CASE d = "0" -> 0 [] d = "1" -> 1 [] d = "2" -> 2 [] d = "3" -> 3 [] d = "4" -> 4
                 [] d = "5" -> 5 [] d = "6" -> 6 [] d = "7" -> 7 [] d = "8" -> 8 [] d = "9" -> 9 ]
NaN     == -1

Texts        == Seq(Character)
EffortRecord == [name : Texts, outcome : Texts, took : Texts, cost : Texts]
LogRecord    == [efforts : Seq(EffortRecord), quotes : BOOLEAN, lost : Nat,
                 ending  : {<<Newline>>, <<Return, Newline>>}]

ASSUME CharacterAssumption == {Quote, Comma, Newline, Return, "seed"} \subseteq Character

ASSUME DirectoriesAssumption == Directories \subseteq Seq(LogRecord)

\* The last column name is neither empty nor ends like a line.
ASSUME HeaderAssumption ==
    Header \in Seq(Texts) /\ Len(Header) = 5 /\ Header[5] # << >> /\ Header[5][Len(Header[5])] # Return

ASSUME LimitAssumption == Limit \in Int

VARIABLES
    logs,             \* the files of the directory, in order
    effortPhase,      \* "open", "read", "judge", "done", "failed"
    rest,             \* the characters of the current file still to read
    quoted, field, row, rows,   \* the parser
    summary,          \* the current file: efforts, total, maximum
    modules           \* the summaries of the files before it

effortVars == <<logs, effortPhase, rest, quoted, field, row, rows, summary, modules>>

File == Len(modules) + 1

-----------------------------------------------------------------------------
(* What Dafny writes.                                                      *)

Encoded(log, text) ==
    IF log.quotes \/ \E i \in DOMAIN text : text[i] \in {Quote, Comma, Newline}
    THEN <<Quote>> \o Ext!FlattenSeq([i \in DOMAIN text |->
           IF text[i] = Quote THEN <<Quote, Quote>> ELSE <<text[i]>>]) \o <<Quote>>
    ELSE text

\* Columns are separated by commas, lines end as the platform ends them.
Cell(log, texts, c) ==
    Encoded(log, texts[c]) \o (IF c = Len(texts) THEN log.ending ELSE <<Comma>>)

Line(log, texts) == Ext!FlattenSeq([c \in DOMAIN texts |-> Cell(log, texts, c)])

Columns(effort) == <<effort.name, effort.outcome, effort.took, effort.cost, <<"seed">>>>

Lines(log) == <<Header>> \o [i \in DOMAIN log.efforts |-> Columns(log.efforts[i])]

\* Of a killed run the last characters are lost.
FileText(log) ==
    LET whole == Ext!FlattenSeq([i \in DOMAIN Lines(log) |-> Line(log, Lines(log)[i])])
    IN SubSeq(whole, 1, Len(whole) - log.lost)

-----------------------------------------------------------------------------
(* parseCsv.                                                               *)

OpenFile ==
    /\ effortPhase = "open" /\ File <= Len(logs)
    /\ effortPhase' = "read" /\ rest' = FileText(logs[File])
    /\ quoted' = FALSE /\ field' = << >> /\ row' = << >> /\ rows' = << >>
    /\ UNCHANGED <<logs, summary, modules>>

Skip(n) == rest' = SubSeq(rest, n + 1, Len(rest))

\* Mutant of ReadQuoted: a quote ends the quoted text, doubled or not.
ReadQuotedPlainly ==
    /\ effortPhase = "read" /\ rest # << >> /\ quoted
    /\ IF Head(rest) = Quote THEN quoted' = FALSE /\ UNCHANGED field
       ELSE field' = Append(field, Head(rest)) /\ UNCHANGED quoted
    /\ Skip(1)
    /\ UNCHANGED <<logs, effortPhase, row, rows, summary, modules>>

ReadQuoted ==
    /\ effortPhase = "read" /\ rest # << >> /\ quoted
    /\ LET doubled == Head(rest) = Quote /\ Len(rest) > 1 /\ rest[2] = Quote
       IN \/ doubled /\ field' = Append(field, Quote) /\ UNCHANGED quoted /\ Skip(2)
          \/ ~doubled /\ Head(rest) = Quote /\ quoted' = FALSE /\ UNCHANGED field /\ Skip(1)
          \/ Head(rest) # Quote /\ field' = Append(field, Head(rest)) /\ UNCHANGED quoted /\ Skip(1)
    /\ UNCHANGED <<logs, effortPhase, row, rows, summary, modules>>

\* The last field of a row may end with the first half of a line ending.
RowWith(last) ==
    Append(row, IF last # << >> /\ last[Len(last)] = Return THEN SubSeq(last, 1, Len(last) - 1) ELSE last)

ReadPlain ==
    /\ effortPhase = "read" /\ rest # << >> /\ ~quoted
    /\ CASE Head(rest) = Quote ->
              quoted' = TRUE /\ UNCHANGED <<field, row, rows>>
         [] Head(rest) = Comma ->
              row' = Append(row, field) /\ field' = << >> /\ UNCHANGED <<quoted, rows>>
         [] Head(rest) = Newline ->
              /\ rows' = Append(rows, RowWith(field)) /\ row' = << >> /\ field' = << >>
              /\ UNCHANGED quoted
         [] OTHER ->
              field' = Append(field, Head(rest)) /\ UNCHANGED <<quoted, row, rows>>
    /\ Skip(1)
    /\ UNCHANGED <<logs, effortPhase, summary, modules>>

\* Rows without a character in them are dropped.
Blank(r) == \A i \in DOMAIN r : r[i] = << >>

Kept(all) ==
    LET upTo[n \in 0..Len(all)] ==
          IF n = 0 THEN << >> ELSE IF Blank(all[n]) THEN upTo[n - 1] ELSE Append(upTo[n - 1], all[n])
    IN upTo[Len(all)]

\* The first row names the columns; at least one effort follows.
WellFormed(read) == Len(read) > 1 /\ Head(read) = Header

Nothing == [efforts |-> 0, total |-> 0, maximum |-> << >>]

EndOfText ==
    /\ effortPhase = "read" /\ rest = << >>
    /\ IF quoted THEN effortPhase' = "failed" /\ UNCHANGED <<rows, summary>>
       ELSE LET all == IF field = << >> /\ row = << >> THEN rows ELSE Append(rows, RowWith(field))
                read == Kept(all)
            IN /\ effortPhase' = IF WellFormed(read) THEN "judge" ELSE "failed"
               /\ rows' = IF read = << >> THEN << >> ELSE Tail(read)
               /\ summary' = Nothing
    /\ field' = << >> /\ row' = << >>
    /\ UNCHANGED <<logs, rest, quoted, modules>>

-----------------------------------------------------------------------------
(* Judging the efforts.                                                    *)

\* The empty text is the number zero.
Number(text) ==
    LET upTo[n \in 0..Len(text)] == IF n = 0 THEN 0 ELSE 10 * upTo[n - 1] + Digit[text[n]]
    IN IF \A i \in DOMAIN text : text[i] \in DOMAIN Digit THEN upTo[Len(text)] ELSE NaN

Acceptable(r) ==
    /\ Len(r) = Len(Header)
    /\ r[2] = Passed
    /\ Number(r[4]) # NaN /\ Number(r[4]) <= Limit
    /\ r[3] = Took

\* Only a greater cost replaces the maximum.
Larger(maximum, cost) == maximum = << >> \/ maximum.cost < cost

JudgeEffort ==
    /\ effortPhase = "judge" /\ rows # << >>
    /\ LET r == Head(rows) IN
       IF ~Acceptable(r) THEN effortPhase' = "failed" /\ UNCHANGED <<rows, summary>>
       ELSE /\ summary' = [efforts |-> summary.efforts + 1,
                           total   |-> summary.total + Number(r[4]),
                           maximum |-> IF Larger(summary.maximum, Number(r[4]))
                                       THEN [name |-> r[1], cost |-> Number(r[4])]
                                       ELSE summary.maximum]
            /\ rows' = Tail(rows)
            /\ UNCHANGED effortPhase
    /\ UNCHANGED <<logs, rest, quoted, field, row, modules>>

CloseFile ==
    /\ effortPhase = "judge" /\ rows = << >>
    /\ modules' = Append(modules, summary)
    /\ effortPhase' = "open"
    /\ UNCHANGED <<logs, rest, quoted, field, row, rows, summary>>

\* The sum of the files; an empty directory is a failure.
Aggregated(sum, module) ==
    [efforts |-> sum.efforts + module.efforts,
     total   |-> sum.total + module.total,
     maximum |-> IF Larger(sum.maximum, module.maximum.cost) THEN module.maximum ELSE sum.maximum]

Total(tallies) ==
    LET after[n \in 0..Len(tallies)] ==
          IF n = 0 THEN Nothing ELSE Aggregated(after[n - 1], tallies[n])
    IN after[Len(tallies)]

PublishSummary ==
    /\ effortPhase = "open" /\ File > Len(logs)
    /\ effortPhase' = IF logs = << >> THEN "failed" ELSE "done"
    /\ summary' = Total(modules)
    /\ UNCHANGED <<logs, rest, quoted, field, row, rows, modules>>

-----------------------------------------------------------------------------
EffortsInit ==
    /\ logs \in Directories
    /\ effortPhase = "open" /\ rest = << >> /\ quoted = FALSE
    /\ field = << >> /\ row = << >> /\ rows = << >>
    /\ summary = << >> /\ modules = << >>

EffortsNext == OpenFile \/ ReadQuoted \/ ReadPlain \/ EndOfText \/ JudgeEffort \/ CloseFile \/ PublishSummary

EffortsSpec == EffortsInit /\ [][EffortsNext]_effortVars

-----------------------------------------------------------------------------
Good(effort) == Acceptable(Columns(effort))

Cost(effort) == Number(effort.cost)

CostOf(efforts) ==
    LET upTo[n \in 0..Len(efforts)] == IF n = 0 THEN 0 ELSE upTo[n - 1] + Cost(efforts[n])
    IN upTo[Len(efforts)]

\* What there is to say of some efforts; the maximum is the first of those
\* that cost most.
Tallies(efforts, tally) ==
    /\ tally.efforts = Len(efforts)
    /\ tally.total = CostOf(efforts)
    /\ \E i \in DOMAIN efforts :
         /\ tally.maximum = [name |-> efforts[i].name, cost |-> Cost(efforts[i])]
         /\ \A j \in DOMAIN efforts : Cost(efforts[j]) <= Cost(efforts[i])
         /\ \A j \in 1..i - 1 : Cost(efforts[j]) < Cost(efforts[i])

\* The efforts the summary counted: of each file, the first ones.
Counted(i) == SubSeq(logs[i].efforts, 1, modules[i].efforts)

\* However names are quoted and lines end, and wherever a file was cut off: a
\* summary that passes has counted efforts as they were written, all of a whole
\* file, none that failed or cost too much, and names the first of the most
\* expensive ones; it fails for no other reason than a bad effort, a file
\* without efforts, a file cut off or an empty directory.
EffortsJudged ==
    /\ effortPhase = "done" =>
         /\ \A i \in DOMAIN logs :
              /\ modules[i].efforts \in 1..Len(logs[i].efforts)
              /\ logs[i].lost = 0 => modules[i].efforts = Len(logs[i].efforts)
              /\ \A j \in DOMAIN Counted(i) : Good(Counted(i)[j])
         /\ Tallies(Ext!FlattenSeq([i \in DOMAIN logs |-> Counted(i)]), summary)
    /\ effortPhase = "failed" =>
         \/ logs = << >>
         \/ \E i \in DOMAIN logs :
              \/ logs[i].efforts = << >> \/ logs[i].lost > 0
              \/ \E j \in DOMAIN logs[i].efforts : ~Good(logs[i].efforts[j])
=============================================================================
