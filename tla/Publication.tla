------------------------------ MODULE Publication ------------------------------
(***************************************************************************)
(* evaluation/update_readme_metrics.py: the newest result file of each     *)
(* baseline and dataset goes into the block of README.md between two       *)
(* markers, or a block that says that nothing has been measured.  The      *)
(* table compares baseline 3 with baseline 6, the two sides of Evaluation; *)
(* costs and the metadata of the runs are left out.                        *)
(***************************************************************************)
EXTENDS Evaluation, SequencesExt

CONSTANT MaxPieces      \* bound: the script is not run on a longer README

ASSUME MaxPiecesAssumption == MaxPieces \in Nat

VARIABLE readme     \* README.md, a sequence of pieces

pubVars == <<vars, readme>>

\* No table, no measurement; a cell is a fraction or blocked.
NotMeasured == <<>>
BlockedCell == <<0, 0>>

Piece(kind) == [kind |-> kind, table |-> NotMeasured]
Block(table) == <<Piece("BEGIN"), [kind |-> "table", table |-> table], Piece("END")>>

Begin == Piece("BEGIN")
End == Piece("END")

\* The README with its markers, one that has lost one of them, and one that has
\* lost both; what is left between them is text like any other.
Readmes == {<<Piece("intro")>> \o Block(NotMeasured) \o <<Piece("outro")>>,
            <<Piece("intro"), Begin, Piece("outro")>>,
            <<Piece("intro"), End, Piece("outro")>>,
            <<Piece("intro"), Piece("outro")>>}

PubInit == Init /\ readme \in Readmes

\* metadata.status
Complete(f) == f.count > 0

\* (mutant) blocked results count as well.
MetricsBlockAnyStatus ==
    Block([d \in {file[s].dataset : s \in Sides} |->
              [s \in Sides |-> IF file[s].dataset = d THEN Accuracy(file[s]) ELSE BlockedCell]])

\* build_metrics_block: one side without a complete result is enough for none.
MetricsBlock ==
    IF \E s \in Sides : ~Complete(file[s])
    THEN Block(NotMeasured)
    ELSE Block([d \in {file[s].dataset : s \in Sides} |->
              [s \in Sides |-> IF file[s].dataset = d THEN Accuracy(file[s]) ELSE BlockedCell]])

First(x) == CHOOSE i \in DOMAIN readme : readme[i] = x /\ \A j \in 1..i - 1 : readme[j] # x

\* update_readme: from the first BEGIN to the first END, or at the end of a file
\* that has not both.
UpdateReadme(block) ==
    readme' = IF Contains(readme, Begin) /\ Contains(readme, End)
              THEN SubSeq(readme, 1, First(Begin) - 1) \o block
                      \o SubSeq(readme, First(End) + 1, Len(readme))
              ELSE readme \o block

\* The script, run when both sides are written (bound: not before).
Publish ==
    /\ side = "gate" /\ Len(readme) <= MaxPieces
    /\ UpdateReadme(MetricsBlock)
    /\ UNCHANGED vars

\* The dataset of a side is run once more, in vain: that file is the newest, and
\* the verdict of the gate was about the one before.
Rerun(s) ==
    /\ side = "gate"
    /\ file' = [file EXCEPT ![s] = [NoFile EXCEPT !.dataset = file[s].dataset]]
    /\ gate' = "open"
    /\ UNCHANGED <<side, dataset, left, tally, right, readme>>

Measure == Next /\ UNCHANGED readme

PubNext == Measure \/ Publish \/ \E s \in Sides : Rerun(s)

PubSpec == PubInit /\ [][PubNext]_pubVars
-------------------------------------------------------------------------------
(* Properties *)

\* The pieces of these kinds, in their order.
Pieces(doc, kinds) ==
    LET upTo[n \in 0..Len(doc)] ==
            IF n = 0 THEN <<>>
            ELSE IF doc[n].kind \in kinds THEN Append(upTo[n - 1], doc[n])
            ELSE upTo[n - 1]
    IN  upTo[Len(doc)]

Outside(doc) == Pieces(doc, {"intro", "outro"})
Tables(doc) == Pieces(doc, {"table"})

\* The script finds both markers in the README, and what they enclose is not one
\* block: BEGIN is not the block's or END comes before it.
Crossed(doc) ==
    /\ Contains(doc, Begin) /\ Contains(doc, End)
    /\ ~\E i \in DOMAIN doc :
          /\ doc[i] = Begin /\ i + 2 \in DOMAIN doc /\ doc[i + 2] = End
          /\ \A j \in DOMAIN doc : (doc[j] = Begin => j = i) /\ (doc[j] = End => j = i + 2)

\* A piece that stands between markers.
Enclosed(doc, piece) ==
    \E b, i, e \in DOMAIN doc :
        b < i /\ i < e /\ doc[b] = Begin /\ doc[i] = piece /\ doc[e] = End

\* The number shown for a side is that of its newest run, which was complete: the
\* share of right answers among those judged, where an unverifiable answer may have
\* been right as well.  When none was judged, 0.0 % is shown.
CellMeasured(cell, d, s) ==
    cell # BlockedCell =>
        /\ file[s].dataset = d /\ file[s].count = Examples[d]
        /\ IF Judged(file[s]) = 0
           THEN cell = <<0, 1>>
           ELSE /\ cell[2] = Judged(file[s])
                /\ cell[1] <= file[s].right
                /\ file[s].right - file[s].tally["unverifiable"] <= cell[1]

TableMeasured(table) ==
    IF table = NotMeasured
    THEN \E s \in Sides : ~Complete(file[s])
    ELSE \A d \in DOMAIN table, s \in Sides : CellMeasured(table[d][s], d, s)

\* "Never writes fabricated numbers": whenever the script changes the README, a
\* table that was not there before shows what was measured, or that nothing was
\* because the newest run of a side was blocked, and there is such a table.
\* Whatever goes stood behind a BEGIN and before an END; and unless stray markers
\* cross the block, it was not text, and there is one table.  They cross it from
\* the second update of a file that had one marker left: behind a lone BEGIN
\* all text is gone then, and a lone END makes everything behind it come twice.
PublishedIsMeasured ==
    [][readme' # readme =>
          /\ \A piece \in Range(readme') \ Range(readme) :
                piece.kind = "table" => TableMeasured(piece.table)
          /\ \E piece \in Range(readme') : piece.kind = "table" /\ TableMeasured(piece.table)
          /\ \A piece \in Range(readme) \ Range(readme') : Enclosed(readme, piece)
          /\ ~Crossed(readme) =>
                /\ Outside(readme') = Outside(readme)
                /\ Len(Tables(readme')) = 1]_pubVars
===============================================================================
