------------------------------ MODULE PatchText ------------------------------
(* How the patch of one file becomes what the model reads (algo/git_patch_processing.py):
   context is added to each hunk, or hunks that only delete are left out, and the lines
   are numbered. The numbers come back in the suggestions, so they must be the file's. *)
EXTENDS Integers, Sequences, FiniteSets, SequencesExt

CONSTANTS
    FileLines,      \* length of the file before the change
    PatchConfs,     \* [before, after, dynamic, upTo]: lines of context to add
    HeaderLines     \* lines that git may name as the section of a hunk

VARIABLES
    script,         \* the change, [op, line] with op " ", "-" or "+"
    section,        \* the line that opens the enclosing function, 0 without one
    patch,          \* the patch of the file, as the tools rewrite it
    shown,          \* what the model reads: numbered new lines and old lines, by hunk
    selected,       \* /ask_line: the range and the lines picked
    stage,
    patchConf

patchVars == <<script, section, patch, shown, selected, stage, patchConf>>

-----------------------------------------------------------------------------
(* The file and its patch as git makes it, with one line of context. *)

Line(op, line) == [op |-> op, line |-> line]
OldSide(text) == SelectSeq(text, LAMBDA l : l.op \in {" ", "-"})
NewSide(text) == SelectSeq(text, LAMBDA l : l.op \in {" ", "+"})
Contents(side) == [i \in DOMAIN side |-> side[i].line]
OldFile == Contents(OldSide(script))
NewFileText == Contents(NewSide(script))

\* Line i of the file is kept, or deleted; a new line comes after it, or does not.
\* New lines are named apart from old ones.
ScriptOf(kept, added) ==
    FlattenSeq([j \in 1..(FileLines + 1) |->
        (IF j = 1 THEN <<>> ELSE <<Line(IF j - 1 \in kept THEN " " ELSE "-", j - 1)>>)
        \o (IF j - 1 \in added THEN <<Line("+", -j)>> ELSE <<>>)])

\* A hunk: its header, with the section if it starts below it, and its body.
Header(old, oldSize, new, newSize, sec) ==
    [op |-> "@", old |-> old, oldSize |-> oldSize, new |-> new, newSize |-> newSize, section |-> sec]
StartAt(before, size) == IF size = 0 THEN before ELSE before + 1
GitHunk(first, last) ==
    LET body == SubSeq(script, first, last)
        ahead == SubSeq(script, 1, first - 1)
        old == StartAt(Len(OldSide(ahead)), Len(OldSide(body)))
        new == StartAt(Len(NewSide(ahead)), Len(NewSide(body)))
    IN  <<Header(old, Len(OldSide(body)), new, Len(NewSide(body)), IF section < old THEN section ELSE 0)>> \o body
InHunk(i) == i \in DOMAIN script /\ \E j \in DOMAIN script : script[j].op # " " /\ j - i \in -1..1
HunkEnd(i) == CHOOSE k \in i..Len(script) : (\A j \in i..k : InHunk(j)) /\ ~InHunk(k + 1)
GitPatch ==
    FlattenSeq([i \in DOMAIN script |->
        IF InHunk(i) /\ ~InHunk(i - 1) THEN GitHunk(i, HunkEnd(i)) ELSE <<>>])

\* A patch made by load_large_diff begins with the two lines that name the files.
Preamble == <<Line("-", 0), Line("+", 0)>>

PatchInit ==
    /\ script = <<>>
    /\ section = 0
    /\ patch = <<>>
    /\ shown = <<>>
    /\ selected = <<>>
    /\ stage = "none"
    /\ patchConf = CHOOSE c \in PatchConfs : TRUE

-----------------------------------------------------------------------------
(* extend_patch. *)

Larger(a, b) == IF a > b THEN a ELSE b
Smaller(a, b) == IF a < b THEN a ELSE b
Slice(lines, first, last) == SubSeq(lines, first, Smaller(last, Len(lines)))
From(lines, i) == SubSeq(lines, i + 1, Len(lines))

\* _calc_context_limits: so many lines more, not beyond the file.
UncappedLimits(h, before) ==
    LET old == Larger(1, h.old - before)
        new == Larger(1, h.new - before)
    IN  Header(old, h.oldSize + (h.old - old) + patchConf.after,
               new, h.newSize + (h.new - new) + patchConf.after, h.section)
ContextLimits(h, before) ==
    LET old == Larger(1, h.old - before)
        new == Larger(1, h.new - before)
        oldSize == h.oldSize + (h.old - old) + patchConf.after
        newSize == h.newSize + (h.new - new) + patchConf.after
        over == Larger(0, old - 1 + oldSize - Len(OldFile))
    IN  Header(old, Larger(oldSize - over, h.oldSize), new, Larger(newSize - over, h.newSize), h.section)
Shift(h, i) == [h EXCEPT !.old = @ + i, !.oldSize = @ - i, !.new = @ + i, !.newSize = @ - i]
OldBefore(h, wide) == Slice(OldFile, wide.old, h.old - 1)
NewBefore(h, wide) == Slice(NewFileText, wide.new, h.new - 1)

\* With dynamic context the lines may reach up to the section's own line. No section is
\* found in every line.
SectionAt(h, wide) ==
    {i \in 0..(Len(OldBefore(h, wide)) - 1) : h.section \in {0, OldBefore(h, wide)[i + 1]}}
LeastOf(S) == CHOOSE i \in S : \A j \in S : i <= j
Widened(h) ==
    LET wide == ContextLimits(h, patchConf.upTo)
        i == LeastOf(SectionAt(h, wide))
    IN  IF /\ patchConf.dynamic /\ NewFileText # <<>>
           /\ SectionAt(h, wide) # {}
           /\ From(OldBefore(h, wide), i) = From(NewBefore(h, wide), i)
        THEN [Shift(wide, i) EXCEPT !.section = 0]
        ELSE ContextLimits(h, patchConf.before)

\* Lines above that differ in the two files are not context: only the part is kept
\* where both agree, or nothing.
UnmatchedContext(h, wide) == wide
MatchedContext(h, wide) ==
    LET same == {i \in 0..(Len(OldBefore(h, wide)) - 1) : From(OldBefore(h, wide), i) = From(NewBefore(h, wide), i)}
    IN  IF NewFileText = <<>> \/ OldBefore(h, wide) = NewBefore(h, wide) THEN wide
        ELSE IF same # {} THEN Shift(wide, LeastOf(same))
        ELSE h

AsContext(lines) == [i \in DOMAIN lines |-> Line(" ", lines[i])]
AfterHunk(h) == AsContext(Slice(OldFile, h.old + h.oldSize, h.old + h.oldSize - 1 + patchConf.after))
WideHeader(h) ==
    LET wide == MatchedContext(h, Widened(h))
        named == ~patchConf.dynamic /\ wide.section \in ToSet(OldBefore(h, wide))
    IN  [wide EXCEPT !.section = IF named THEN 0 ELSE @]

\* A hunk whose first line is not the file's is left as it is.
BodyOf(text, i) ==
    LET ends == {k \in (i + 1)..Len(text) : text[k].op = "@"}
    IN  SubSeq(text, i + 1, IF ends = {} THEN Len(text) ELSE LeastOf(ends) - 1)
Matches(h, body) == Len(body) > 0 /\ body[1].op = " " => h.old \in DOMAIN OldFile /\ body[1].line = OldFile[h.old]
ExtendedHunk(h, body) ==
    IF ~Matches(h, body) THEN <<h>> \o body
    ELSE <<WideHeader(h)>> \o AsContext(OldBefore(h, WideHeader(h))) \o body \o AfterHunk(h)
ExtendPatch(text) ==
    IF patchConf.before + patchConf.after = 0 \/ OldFile = <<>> THEN text
    ELSE FlattenSeq([i \in DOMAIN text |->
            IF text[i].op = "@" THEN ExtendedHunk(text[i], BodyOf(text, i))
            ELSE IF \E j \in 1..i : text[j].op = "@" THEN <<>>
            ELSE <<text[i]>>])

-----------------------------------------------------------------------------
(* handle_patch_deletions. *)

\* Hunks with an added line are kept. What was collected before is only cleared when a
\* hunk is kept, so a hunk that only deletes is kept with a later one.
OmitStep(acc, l) ==
    IF l.op = "@"
    THEN IF acc.inside /\ acc.add
         THEN [out |-> acc.out \o acc.temp, temp |-> <<l>>, add |-> FALSE, inside |-> TRUE]
         ELSE [acc EXCEPT !.temp = Append(@, l), !.inside = TRUE]
    ELSE [acc EXCEPT !.temp = Append(@, l), !.add = @ \/ l.op = "+"]
OmitDeletionHunks(text) ==
    LET end == FoldLeft(OmitStep, [out |-> <<>>, temp |-> <<>>, add |-> FALSE, inside |-> FALSE], text)
    IN  IF end.inside /\ end.add THEN end.out \o end.temp ELSE end.out

-----------------------------------------------------------------------------
(* decouple_and_convert_to_hunks_with_lines_numbers. *)

\* One hunk as it is shown: nothing without a change, the old lines only with a deletion.
HasOp(lines, op) == \E i \in DOMAIN lines : lines[i].op = op
Part(acc) ==
    IF ~HasOp(acc.new, "+") /\ ~HasOp(acc.old, "-") THEN <<>>
    ELSE <<[new |-> [i \in DOMAIN acc.new |->
                        [n |-> acc.start + i - 1, op |-> acc.new[i].op, line |-> acc.new[i].line]],
            old |-> IF HasOp(acc.old, "-") THEN acc.old ELSE <<>>]>>
NumberStep(acc, l) ==
    IF l.op = "@" THEN [out |-> acc.out \o Part(acc), new |-> <<>>, old |-> <<>>, start |-> l.new, header |-> TRUE]
    ELSE [acc EXCEPT !.new = IF l.op \in {" ", "+"} THEN Append(@, l) ELSE @,
                     !.old = IF l.op \in {" ", "-"} THEN Append(@, l) ELSE @]
NumberedAll(text) ==
    FoldLeft(NumberStep, [out |-> <<>>, new |-> <<>>, old |-> <<>>, start |-> -1, header |-> FALSE], text)
NumberedButLast(text) == NumberedAll(text).out
Numbered(text) ==
    LET end == NumberedAll(text)
    IN  IF end.header /\ end.new # <<>> THEN end.out \o Part(end) ELSE end.out

-----------------------------------------------------------------------------
(* extract_hunk_lines_from_patch, on the new side. *)

\* The hunk must hold the first line of the range, or end just before it. A deleted line
\* has the number of the line that follows it.
SelectStep(acc, l) ==
    LET here == acc.start + acc.n
        picked == acc.from <= here /\ here <= acc.to
    IN  IF l.op = "@"
        THEN [acc EXCEPT !.skip = ~(l.new <= acc.from /\ acc.from <= l.new + l.newSize), !.n = 0, !.start = l.new]
        ELSE IF acc.skip THEN acc
        ELSE [acc EXCEPT !.out = IF picked THEN Append(@, [n |-> here, op |-> l.op, line |-> l.line]) ELSE @,
                         !.n = IF l.op = "-" THEN @ ELSE @ + 1]
PickLine(acc, l) == SelectStep(acc, l)
SelectLines(text, from, to) ==
    FoldLeft(PickLine, [from |-> from, to |-> to, skip |-> TRUE, n |-> 0, start |-> -1, out |-> <<>>], text).out

-----------------------------------------------------------------------------
(* Steps. *)

\* Somebody changes the file; the provider brings the patch, or makes it from the two
\* files.
ChangeFile ==
    /\ stage = "none"
    /\ \E kept \in SUBSET (1..FileLines), added \in SUBSET (0..FileLines) :
        script' = ScriptOf(kept, added) /\ (kept # 1..FileLines \/ added # {})
    /\ section' \in HeaderLines
    /\ patchConf' \in PatchConfs
    /\ stage' = "changed"
    /\ UNCHANGED <<patch, shown, selected>>
FetchPatch ==
    /\ stage = "changed"
    /\ patch' \in {GitPatch, Preamble \o GitPatch}
    /\ stage' = "fetched"
    /\ UNCHANGED <<script, section, shown, selected, patchConf>>

\* pr_generate_extended_diff, for one file.
ShowFull ==
    /\ stage = "fetched"
    /\ patch' = ExtendPatch(patch)
    /\ shown' = Numbered(patch')
    /\ stage' = "full"
    /\ UNCHANGED <<script, section, selected, patchConf>>

\* pr_generate_compressed_diff: a deleted file has no patch at all.
ShowCompressed ==
    /\ stage = "fetched"
    /\ IF NewFileText = <<>> THEN patch' = <<>> /\ stage' = "deleted"
       ELSE patch' = OmitDeletionHunks(patch) /\ stage' = "compressed"
    /\ shown' = Numbered(patch')
    /\ UNCHANGED <<script, section, selected, patchConf>>

AskLines ==
    /\ stage = "fetched"
    /\ \E from, to \in 1..Len(NewFileText) :
        from <= to /\ selected' = <<[from |-> from, to |-> to, lines |-> SelectLines(patch, from, to)]>>
    /\ stage' = "asked"
    /\ UNCHANGED <<script, section, patch, shown, patchConf>>

PatchNext == ChangeFile \/ FetchPatch \/ ShowFull \/ ShowCompressed \/ AskLines

-----------------------------------------------------------------------------
(* Properties. *)

ShownLines == UNION {ToSet(shown[k].new) : k \in DOMAIN shown}
ShownOld == UNION {ToSet(shown[k].old) : k \in DOMAIN shown}

\* Types; a header names the file's section and no line beyond the old file.
PatchTypeOK ==
    /\ stage \in {"none", "changed", "fetched", "full", "compressed", "deleted", "asked"}
    /\ \A i \in DOMAIN patch : patch[i].op \in {" ", "-", "+", "@"}
    /\ \A i \in DOMAIN patch : patch[i].op = "@" =>
        patch[i].section \in {0, section} /\ patch[i].old + patch[i].oldSize - 1 <= Len(OldFile)

\* A line shown with a number is that line of the new file, whatever context was added
\* and whichever hunks were left out; only the two lines that name the files have none.
NumbersAreTrue ==
    \A l \in ShownLines : l.line # 0 => l.n \in DOMAIN NewFileText /\ NewFileText[l.n] = l.line

\* Every added line is shown as one, once, unless the file was deleted; every deleted
\* line is in a full diff of a file that is not left empty, and no line that was kept is
\* shown as changed.
Times(line) == Cardinality({<<k, i>> \in (DOMAIN shown) \X (1..(2 * FileLines + 3)) :
                              i \in DOMAIN shown[k].new /\ shown[k].new[i].op = "+" /\ shown[k].new[i].line = line})
ChangesAreShown ==
    /\ stage \in {"full", "compressed"} => \A i \in DOMAIN script : script[i].op = "+" => Times(script[i].line) = 1
    /\ stage = "full" /\ NewFileText # <<>> =>
        \A i \in DOMAIN script : script[i].op = "-" => script[i] \in ShownOld
    /\ \A l \in ShownLines \cup ShownOld :
        l.op # " " /\ l.line # 0 => \E i \in DOMAIN script : script[i].op = l.op /\ script[i].line = l.line

\* What a compressed diff leaves out are hunks that only delete.
OnlyDeletionsAreOmitted ==
    stage = "compressed" => \A i \in DOMAIN script :
        script[i].op = "-" /\ script[i] \notin ShownOld =>
            \A j \in DOMAIN script : script[j].op = "+" => \E k \in (i..j) \cup (j..i) : ~InHunk(k)

\* /ask_line is about the lines that were marked: those of the range in the hunk where it
\* begins, and the ones deleted between them.
SelectionIsTheRange ==
    \A i \in DOMAIN selected :
        LET s == selected[i]
        IN  /\ \A j \in DOMAIN s.lines :
                s.lines[j].op # "-" => s.lines[j].n \in s.from..s.to /\ NewFileText[s.lines[j].n] = s.lines[j].line
            /\ \A j \in DOMAIN script :
                InHunk(j) /\ script[j].op # "-" /\ script[j].line = NewFileText[s.from] =>
                    \E k \in DOMAIN s.lines : s.lines[k].line = NewFileText[s.from]

\* A number beside a line is its number in the file, in a diff and in a selection.
LinesAreTrue == NumbersAreTrue /\ SelectionIsTheRange

\* The model sees every change but deletions that a compressed diff leaves out.
ChangesAreComplete == ChangesAreShown /\ OnlyDeletionsAreOmitted
=============================================================================
