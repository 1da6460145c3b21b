----------------------------- MODULE ChecksumLine -----------------------------
(***************************************************************************)
(* A line of a checksum file, as it is written and as it is read.          *)
(*                                                                         *)
(*   src/src/checkcopy-file-info.c (format_checksum, cmp),                 *)
(*   checkcopy-file-list.c (parse_checksum_file)                           *)
(*                                                                         *)
(* A string is a sequence of bytes.  The reader splits the file at the     *)
(* line feeds; the one at the end of a line is left out.                   *)
(***************************************************************************)
EXTENDS Integers, Sequences, SequencesExt

LF        == 10
SPACE     == 32
HASH      == 35
STAR      == 42
SEMICOLON == 59

Format(sum, name) == sum \o <<SPACE, SPACE>> \o name

\* What follows the first k bytes.
After(string, k) == SubSeq(string, k + 1, Len(string))

SkipSpaces(string) ==
    After(string, (SelectInSeq(Append(string, 0), LAMBDA c : c # SPACE)) - 1)

SkipStar(string) == IF string # <<>> /\ Head(string) = STAR THEN Tail(string) ELSE string

IsComment(line) == line # <<>> /\ Head(line) \in {HASH, SEMICOLON}

\* A faulty Parse: the name ends at the next space.
ParseWord(line) ==
    LET c    == SelectInSeq(line, LAMBDA b : b = SPACE)
        name == SkipStar(SkipSpaces(After(line, c)))
        stop == SelectInSeq(Append(name, SPACE), LAMBDA b : b = SPACE)
    IN  IF IsComment(line) \/ c <= 1 THEN {}
        ELSE {[sum  |-> SubSeq(line, 1, c - 1), name |-> SubSeq(name, 1, stop - 1)]}

\* The checksum and the name a line stands for, if any: a comment, an empty
\* first column or a single one stand for none.
Parse(line) ==
    LET c == SelectInSeq(line, LAMBDA b : b = SPACE)
    IN  IF IsComment(line) \/ c <= 1 THEN {}
        ELSE {[sum  |-> SubSeq(line, 1, c - 1),
               name |-> SkipStar(SkipSpaces(After(line, c)))]}

\* g_strcmp0 (a, b) < 0
Before(a, b) ==
    \E k \in 0 .. Len(a) :
        /\ k < Len(b) /\ SubSeq(a, 1, k) = SubSeq(b, 1, k)
        /\ k = Len(a) \/ a[k + 1] < b[k + 1]

\* The reader takes the text for one line.
Unbroken(string) == LF \notin Range(string)

\* The parser takes these for the spaces between the columns, or for the mark
\* of a binary file.
Plain(name) == name # <<>> /\ Head(name) \notin {SPACE, STAR} /\ Unbroken(name)
===============================================================================
