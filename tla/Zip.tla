--------------------------------- MODULE Zip --------------------------------
(***************************************************************************)
(* The run-length compressors wzip (one pass over lines) and pzip (one     *)
(* thread per processor on a slice of each file, merged by main), and      *)
(* wunzip.  A file is a sequence of characters other than NUL; a           *)
(* compressed file is a sequence of pairs <<count, character>>.            *)
(***************************************************************************)
EXTENDS Naturals, Sequences, SequencesExt

CONSTANTS
  Char,
  OldChar,         \* the character '\357', which pzip starts from
  NO_OF_PROC,
  RESMAX,          \* 1000000, the entries of a thread's res_char and res_count
  Inputs           \* bound: the lists of files given to the programs

VARIABLES
  files,           \* the arguments
  fileno,          \* pzip: the file being compressed, or Done or Overrun
  parts,           \* per thread, what it left in res_char and res_count; <<>> before it ran
  old,             \* old_count and old_char
  out              \* what pzip has written

zvars == <<files, fileno, parts, old, out>>

-----------------------------------------------------------------------------
(***************************************************************************)
(* wzip and wunzip.                                                        *)
(***************************************************************************)
\* One character of wzip's loop; z.count = 0 before the first.
wzip_char(z, c) ==
  CASE z.count = 0 -> [z EXCEPT !.curr = c, !.count = 1]
    [] z.count # 0 /\ z.curr # c ->
         [out |-> Append(z.out, <<z.count, z.curr>>), curr |-> c, count |-> 1]
    [] OTHER -> [z EXCEPT !.count = @ + 1]

\* getline cuts the files into lines, which come in order and whole.  For empty files the last
\* pair has count 0 and whatever curr holds.
wzip(fs) ==
  LET z == FoldLeft(wzip_char, [out |-> <<>>, curr |-> OldChar, count |-> 0], FlattenSeq(fs))
  IN  Append(z.out, <<z.count, z.curr>>)

wunzip(pairs) == FlattenSeq([k \in DOMAIN pairs |-> [j \in 1..pairs[k][1] |-> pairs[k][2]]])

-----------------------------------------------------------------------------
(***************************************************************************)
(* pzip.                                                                   *)
(***************************************************************************)
ZipInit ==
  /\ files \in Inputs
  /\ fileno = 1 /\ parts = [j \in 0..NO_OF_PROC - 1 |-> <<>>]
  /\ old = <<0, OldChar>> /\ out = <<>>

\* The slice of thread j: args[j].start and args[j].end.
part == Len(files[fileno]) \div NO_OF_PROC
Slice(j) == SubSeq(files[fileno], part * j + 1, IF j = NO_OF_PROC - 1 THEN Len(files[fileno]) ELSE part * j + part)

\* pzip has come to its end; it has written past a thread's arrays, and anything may follow.
Done == Len(files) + 2
Overrun == Len(files) + 3

\* Thread j.  It takes its first character without asking whether the slice has one: in a file
\* with fewer characters than threads all slices but the last are empty and start at 0.  Its
\* pairs and the count of -1 that ends them must find room.
zip(j) ==
  LET pairs == IF Slice(j) = <<>> THEN <<<<1, files[fileno][1]>>>> ELSE wzip(<<Slice(j)>>) IN
  /\ fileno <= Len(files) /\ parts[j] = <<>>
  /\ IF Len(pairs) + 1 <= RESMAX
       THEN parts' = [parts EXCEPT ![j] = pairs] /\ UNCHANGED fileno
       ELSE fileno' = Overrun /\ UNCHANGED parts
  /\ UNCHANGED <<files, old, out>>

\* A pair that main merges: m is old and the output.
merge_pair_split(m, x) ==
  [old |-> x, out |-> IF m.old[1] = 0 THEN m.out ELSE Append(m.out, m.old)]
merge_pair(m, x) ==
  IF m.old[2] # x[2]
    THEN [old |-> x, out |-> IF m.old[1] = 0 THEN m.out ELSE Append(m.out, m.old)]
    ELSE [m EXCEPT !.old[1] = @ + x[1]]

\* main, when all threads have been joined.
merge ==
  /\ fileno <= Len(files) /\ \A j \in DOMAIN parts : parts[j] # <<>>
  /\ LET all == FlattenSeq([k \in 1..NO_OF_PROC |-> parts[k - 1]])
         m == FoldLeft(merge_pair, [old |-> old, out |-> out], all)
     IN  old' = m.old /\ out' = m.out
  /\ fileno' = fileno + 1
  /\ parts' = [j \in DOMAIN parts |-> <<>>]
  /\ UNCHANGED files

\* main, after the last file.
finish ==
  /\ fileno = Len(files) + 1
  /\ out' = IF old[1] > 0 THEN Append(out, old) ELSE out
  /\ fileno' = fileno + 1
  /\ UNCHANGED <<files, parts, old>>

ZipNext == (\E j \in DOMAIN parts : zip(j)) \/ merge \/ finish

-----------------------------------------------------------------------------
\* When pzip is done with files that have a character for every thread, it has written what
\* wzip writes, wherever the slices cut the runs and whatever the files begin with; runs that
\* cross slices and files are one pair; and wunzip gives the text back.  The arrays of a thread
\* are overrun by files of RESMAX characters or more only.
ZipExact ==
  /\ fileno = Done /\ (\A k \in DOMAIN files : Len(files[k]) >= NO_OF_PROC) =>
       /\ out = wzip(files)
       /\ wunzip(out) = FlattenSeq(files)
       /\ \A k \in 1..Len(out) - 1 : out[k][2] # out[k + 1][2]
  /\ fileno = Overrun => \E k \in DOMAIN files : Len(files[k]) >= RESMAX
=============================================================================
