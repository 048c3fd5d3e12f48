----------------------------- MODULE WordCount -----------------------------
(***************************************************************************)
(* tests/word_count/word_count-pthread.c with sort-pthread.c, the version  *)
(* of word_count that the experiments compare with Phoenix: it cuts the    *)
(* file into a section for each processor, counts the words of each in a   *)
(* thread, merges the tables pairwise in rounds of threads, and sorts the  *)
(* result in rounds of threads.                                            *)
(*                                                                         *)
(* The table of a section does not copy words, it points into the mapped   *)
(* file, where threads turn letters to upper case and end each word with a *)
(* 0; the one that ends the last word of a section is the first character  *)
(* of the next section, which another thread reads.  Characters are ASCII  *)
(* codes.  The failures that CHECK_ERROR turns into exit are left out.     *)
(***************************************************************************)
EXTENDS Integers, Sequences, FiniteSets, FiniteSetsExt, SequencesExt

CONSTANTS Jobs,               \* files and numbers of processors
          MaxProcs,           \* the largest of these numbers
          START_ARRAY_SIZE

ASSUME SizesAssumption == MaxProcs \in Nat \ {0} /\ START_ARRAY_SIZE \in Nat \ {0}

ASSUME JobsAssumption ==
    \A job \in Jobs : job.file \in Seq(1..127) /\ job.num_procs \in 1..MaxProcs

VARIABLES
    file, num_procs,          \* the job
    data, fpos,               \* wc_data_t: the mapped file, the place of the splitter
    words, length,            \* the table of each section, and its capacity
    thr,                      \* the threads
    pc, i,                    \* the main thread, and the index of its loops
    num_threads, rem_num

rounds == <<num_threads, rem_num>>
vars == <<file, num_procs, data, fpos, words, length, thr, pc, i, rounds>>

flen == Len(file)
Procs == 0..(num_procs - 1)
Goto(from, to) == pc = from /\ pc' = to

-----------------------------------------------------------------------------
(* Characters and words. *)

toupper(c) == IF c \in 97..122 THEN c - 32 ELSE c
Letter(c) == c \in 65..90
Blank(c) == c \in {9, 10, 13, 32}

\* The string at address p of a memory.
TextIn(mem, p) == LET zero == Min({q \in p..flen : mem[q] = 0})
                  IN  [k \in 1..(zero - p) |-> mem[p + k - 1]]
Text(p) == TextIn(data, p)

\* strcmp(a, b) < 0.
Before(a, b) ==
    \E n \in 1..Len(b) : /\ \A k \in 1..(n - 1) : k <= Len(a) /\ a[k] = b[k]
                         /\ n = Len(a) + 1 \/ (n <= Len(a) /\ a[n] < b[n])

-----------------------------------------------------------------------------
Init == /\ \E job \in Jobs : file = job.file /\ num_procs = job.num_procs
        /\ data = [p \in 0..flen |-> IF p = flen THEN 0 ELSE file[p + 1]]
        /\ fpos = 0
        /\ words = [t \in Procs |-> <<>>]
        /\ length = [t \in Procs |-> START_ARRAY_SIZE]
        /\ thr = [t \in Procs |-> [at |-> "ended"]]
        /\ pc = "split" /\ i = 0
        /\ num_threads = 0 /\ rem_num = 0

-----------------------------------------------------------------------------
(* wordcount_splitter: sections *)

\* The nominal length of a section.
SectionLength == Min({flen \div num_procs, flen - fpos})

\* Mutant: the border is put after the nominal length, wherever it falls.
SectionEndAnywhere(from) == from

\* "Set the length to end at a space".
SectionEnd(from) == Min({q \in from..flen : q = flen \/ Blank(data[q])})

Split ==
    /\ pc = "split"
    /\ LET end == SectionEnd(fpos + SectionLength)
       IN  /\ thr' = [thr EXCEPT ![i] = [at |-> "map", start |-> fpos, length |-> end - fpos,
                                         i |-> 0, curr_start |-> fpos, in_word |-> FALSE]]
           /\ fpos' = end
    /\ IF i + 1 < num_procs THEN pc' = pc /\ i' = i + 1
                            ELSE pc' = "join_map" /\ i' = 0
    /\ UNCHANGED <<file, num_procs, data, words, length, rounds>>

-----------------------------------------------------------------------------
(* wordcount_map *)

\* The binary search: high, when high - low > 1 fails or the word is found.
Search(table, word) ==
    LET high[p \in (0..Len(table)) \X (-1..Len(table))] ==
            LET h == p[1]  l == p[2]  next == (h + l) \div 2
            IN  IF h - l <= 1 THEN h
                ELSE IF Text(table[next + 1].word) = word THEN next
                ELSE IF Before(word, Text(table[next + 1].word)) THEN high[<<next, l>>]
                ELSE high[<<h, next>>]
    IN  high[<<Len(table), -1>>]

\* Mutant: words are appended.
AddedAtEnd(table, word, p) == Append(table, [word |-> p, count |-> 1])

\* The table with one more occurrence of a word, which is at p.
Added(table, word, p) ==
    LET pos == Search(table, word) + 1
    IN  IF pos <= Len(table) /\ Text(table[pos].word) = word
          THEN [table EXCEPT ![pos].count = @ + 1]
          ELSE InsertAt(table, pos, [word |-> p, count |-> 1])

wordcount_reduce(t, p) ==
    /\ words' = [words EXCEPT ![t] = Added(@, TextIn(data', p), p)]
    /\ length' = [length EXCEPT ![t] = IF Len(words'[t]) = @ THEN 2 * @ ELSE @]

At(t) == thr[t].start + thr[t].i
Turn(t) == thr[t].at = "map" /\ thr[t].i < thr[t].length

StartWord(t) ==
    /\ Turn(t) /\ ~thr[t].in_word
    /\ Letter(toupper(data[At(t)]))
    /\ data' = [data EXCEPT ![At(t)] = toupper(@)]
    /\ thr' = [thr EXCEPT ![t].curr_start = At(t), ![t].in_word = TRUE, ![t].i = @ + 1]
    /\ UNCHANGED <<words, length>>

Skip(t) ==
    /\ Turn(t) /\ ~thr[t].in_word
    /\ ~Letter(toupper(data[At(t)]))
    /\ thr' = [thr EXCEPT ![t].i = @ + 1]
    /\ UNCHANGED <<data, words, length>>

InsideWord(c) == Letter(c) \/ c = 39

ExtendWord(t) ==
    /\ Turn(t) /\ thr[t].in_word
    /\ InsideWord(toupper(data[At(t)]))
    /\ data' = [data EXCEPT ![At(t)] = toupper(@)]
    /\ thr' = [thr EXCEPT ![t].i = @ + 1]
    /\ UNCHANGED <<words, length>>

EndWord(t) ==
    /\ Turn(t) /\ thr[t].in_word
    /\ ~InsideWord(toupper(data[At(t)]))
    /\ data' = [data EXCEPT ![At(t)] = 0]
    /\ wordcount_reduce(t, thr[t].curr_start)
    /\ thr' = [thr EXCEPT ![t].in_word = FALSE, ![t].i = @ + 1]

\* Mutant: the 0 is put on the last character of the section.
SectionBorderShort(t) == thr[t].start + thr[t].length - 1

\* data[args->length]: the first character of the next section, or behind the file.
SectionBorder(t) == thr[t].start + thr[t].length

\* "Add the last word".
LastWord(t) ==
    /\ thr[t].at = "map" /\ thr[t].i = thr[t].length
    /\ thr' = [thr EXCEPT ![t] = [at |-> "ended"]]
    /\ IF thr[t].in_word
         THEN /\ data' = [data EXCEPT ![SectionBorder(t)] = 0]
              /\ wordcount_reduce(t, thr[t].curr_start)
         ELSE UNCHANGED <<data, words, length>>

wordcount_map(t) == /\ StartWord(t) \/ Skip(t) \/ ExtendWord(t) \/ EndWord(t) \/ LastWord(t)
                    /\ UNCHANGED <<file, num_procs, fpos, pc, i, rounds>>

-----------------------------------------------------------------------------
(* wordcount_splitter: rounds of merges *)

Joined == thr[i].at = "ended"

JoinMap ==
    /\ pc = "join_map" /\ Joined
    /\ IF i + 1 < num_procs
         THEN pc' = pc /\ i' = i + 1 /\ UNCHANGED rounds
         ELSE /\ num_threads' = num_procs \div 2
              /\ rem_num' = num_procs % 2
              /\ pc' = IF num_threads' > 0 THEN "create_merge" ELSE "sort"
              /\ i' = 0
    /\ UNCHANGED <<file, num_procs, data, fpos, words, length, thr>>

CreateMerge ==
    /\ pc = "create_merge"
    /\ thr' = [thr EXCEPT ![i] = [at |-> "merge", data1 |-> words[2 * i],
                                  data2 |-> words[2 * i + 1], out |-> <<>>]]
    /\ IF i + 1 < num_threads THEN pc' = pc /\ i' = i + 1
                              ELSE pc' = "join_merge" /\ i' = 0
    /\ UNCHANGED <<file, num_procs, data, fpos, words, length, rounds>>

\* One turn of the loop of a merging thread, or the copy of what is left.
merge_sections(t) ==
    /\ thr[t].at = "merge"
    /\ LET data1 == thr[t].data1
           data2 == thr[t].data2
           text(table) == Text(Head(table).word)
       IN  \/ /\ data1 # <<>> /\ data2 # <<>> /\ text(data1) = text(data2)
              /\ thr' = [thr EXCEPT ![t].data1[1].count = @ + Head(data2).count,
                                    ![t].data2 = Tail(@)]
           \/ /\ data1 # <<>> /\ data2 # <<>> /\ Before(text(data1), text(data2))
              /\ thr' = [thr EXCEPT ![t].data1 = Tail(@), ![t].out = Append(@, Head(data1))]
           \/ /\ data1 # <<>> /\ data2 # <<>> /\ Before(text(data2), text(data1))
              /\ thr' = [thr EXCEPT ![t].data2 = Tail(@), ![t].out = Append(@, Head(data2))]
           \/ /\ data1 = <<>> \/ data2 = <<>>
              /\ thr' = [thr EXCEPT ![t] = [at |-> "ended", out |-> @.out \o data1 \o data2]]
    /\ UNCHANGED <<file, num_procs, data, fpos, words, length, pc, i, rounds>>

\* Mutant: a table without a partner is not carried along.
NextRoundDropping == num_threads' = num_threads \div 2 /\ rem_num' = (num_threads + rem_num) % 2

\* Mutant: the number of tables left over is not taken modulo 2.
NextRoundNoModulo == num_threads' = (num_threads + rem_num) \div 2 /\ rem_num' = num_threads + rem_num

\* The number of merges of the next round, and whether a table is left over.
NextRound == /\ num_threads' = (num_threads + rem_num) \div 2
             /\ rem_num' = (num_threads + rem_num) % 2

\* At the end of a round a table without a partner moves behind the merged ones.
JoinMerge ==
    /\ pc = "join_merge" /\ Joined
    /\ LET joined == [words EXCEPT ![i] = thr[i].out]
       IN  \/ /\ i + 1 < num_threads
              /\ words' = joined
              /\ pc' = pc /\ i' = i + 1
              /\ UNCHANGED rounds
           \/ /\ i + 1 = num_threads
              /\ words' = IF rem_num = 1
                            THEN [joined EXCEPT ![num_threads] = words[2 * num_threads]]
                            ELSE joined
              /\ NextRound
              /\ pc' = IF num_threads' > 0 THEN "create_merge" ELSE "sort"
              /\ i' = 0
    /\ UNCHANGED <<file, num_procs, data, fpos, length, thr>>

-----------------------------------------------------------------------------
(* sort_pthreads *)

SortAll ==
    /\ Goto("sort", "create_sort")
    /\ num_threads' = num_procs
    /\ UNCHANGED <<file, num_procs, data, fpos, words, length, thr, i, rem_num>>

CreateSort ==
    /\ pc = "create_sort"
    /\ LET num_elems == Len(words[0])
           req_units == num_elems \div num_threads
       IN  thr' = [thr EXCEPT ![i] = [at |-> "sort", base |-> i * req_units,
                      num_elems |-> IF i = num_threads - 1 THEN num_elems - i * req_units
                                                           ELSE req_units]]
    /\ IF i + 1 < num_threads THEN pc' = pc /\ i' = i + 1
                              ELSE pc' = "join_sort" /\ i' = 0
    /\ UNCHANGED <<file, num_procs, data, fpos, words, length, rounds>>

\* qsort by wordcount_cmp: entries of equal count come in any order.
sort_section(t) ==
    /\ thr[t].at = "sort"
    /\ LET part == (thr[t].base + 1)..(thr[t].base + thr[t].num_elems)
       IN  \E perm \in Bijection(part, part) :
              /\ \A k, l \in part : k < l => words[0][perm[k]].count >= words[0][perm[l]].count
              /\ words' = [words EXCEPT ![0] = [k \in DOMAIN @ |-> IF k \in part THEN @[perm[k]]
                                                                               ELSE @[k]]]
    /\ thr' = [thr EXCEPT ![t] = [at |-> "ended"]]
    /\ UNCHANGED <<file, num_procs, data, fpos, length, pc, i, rounds>>

\* Mutant: the last round is left out.
FewerThreadsStop == num_threads' = IF num_threads = 2 THEN 0 ELSE num_threads \div 2

\* Mutant: the number of threads is rounded up.
FewerThreadsRoundedUp == num_threads' = (num_threads + 1) \div 2

\* Half as many threads sort sections that are twice as long.
FewerThreads == num_threads' = num_threads \div 2

JoinSort ==
    /\ pc = "join_sort" /\ Joined
    /\ IF i + 1 < num_threads
         THEN pc' = pc /\ i' = i + 1 /\ UNCHANGED num_threads
         ELSE /\ FewerThreads
              /\ pc' = IF num_threads' > 0 THEN "create_sort" ELSE "done"
              /\ i' = 0
    /\ UNCHANGED <<file, num_procs, data, fpos, words, length, thr, rem_num>>

-----------------------------------------------------------------------------
Main == Split \/ JoinMap \/ CreateMerge \/ JoinMerge \/ SortAll \/ CreateSort \/ JoinSort

Thread(t) == wordcount_map(t) \/ merge_sections(t) \/ sort_section(t)

Finished == pc = "done" /\ UNCHANGED vars

Next == Main \/ (\E t \in Procs : Thread(t)) \/ Finished

Spec == Init /\ [][Next]_vars

\* Threads that can run are scheduled.  (A thread index is below every num_procs.)
FairSpec == /\ Spec /\ WF_vars(Main)
            /\ \A t \in 0..(MaxProcs - 1) : WF_vars(t \in Procs /\ Thread(t))

-----------------------------------------------------------------------------
(* Properties. *)

Entries == [word : 0..flen, count : Nat \ {0}]

TypeOK ==
    /\ num_procs \in 1..MaxProcs
    /\ data \in [0..flen -> 0..127] /\ data[flen] = 0
    /\ fpos \in 0..flen
    /\ words \in [Procs -> Seq(Entries)]
    /\ length \in [Procs -> Nat \ {0}]
    /\ \A t \in Procs :
          \/ thr[t].at = "map" /\ thr[t].i \in 0..thr[t].length
          \/ thr[t].at = "merge" /\ \A k \in {"data1", "data2", "out"} : thr[t][k] \in Seq(Entries)
          \/ thr[t].at = "sort" /\ thr[t].base + thr[t].num_elems \in 0..Len(words[0])
          \/ thr[t].at = "ended"
    /\ pc \in {"split", "join_map", "create_merge", "join_merge", "sort", "create_sort",
               "join_sort", "done"}
    /\ i \in Procs /\ num_threads \in 0..num_procs /\ rem_num \in {0, 1}

\* The words of the file, as the sequential version finds them: letters and
\* apostrophes, from a letter on.
Char(p) == toupper(file[p + 1])
InFileWord(p) == \E q \in 0..p : Letter(Char(q)) /\ \A r \in q..p : InsideWord(Char(r))
WordStarts == {p \in 0..(flen - 1) : Letter(Char(p)) /\ ~(p > 0 /\ InFileWord(p - 1))}
FileWord(p) == LET end == Min({q \in p..flen : q = flen \/ ~InFileWord(q)})
               IN  [k \in 1..(end - p) |-> Char(p + k - 1)]
Occurrences(w) == Cardinality({p \in WordStarts : FileWord(p) = w})

\* The characters a table points to stay what they were in the file, although
\* other threads write to the file as well.
WordsIntact ==
    \A t \in Procs : \A k \in DOMAIN words[t] :
        LET p == words[t][k].word IN p \in WordStarts /\ Text(p) = FileWord(p)

\* As long as words are counted and merged, tables are sorted without duplicates,
\* which the binary search and the merge rely on, and have room for a new word.
TablesOK ==
    pc \in {"split", "join_map", "create_merge", "join_merge"} =>
        \A t \in Procs :
            /\ \A k, l \in DOMAIN words[t] :
                  k < l => Before(Text(words[t][k].word), Text(words[t][l].word))
            /\ pc \in {"split", "join_map"} => Len(words[t]) < length[t]

\* The tables between the sections and the result: those that are not merged yet,
\* those that a thread merges, and those it has merged.
Held(t) == IF thr[t].at = "merge" THEN thr[t].data1 \o thr[t].data2 \o thr[t].out ELSE thr[t].out
Live == IF pc \in {"create_merge", "join_merge"}
          THEN FlattenSeq([t \in 1..num_threads |->
                  IF pc = "create_merge" /\ t > i THEN words[2 * t - 2] \o words[2 * t - 1]
                  ELSE IF pc = "join_merge" /\ t <= i THEN words[t - 1]
                  ELSE Held(t - 1)])
               \o IF rem_num = 1 THEN words[2 * num_threads] ELSE <<>>
          ELSE words[0]
CountOf(w) == FoldLeft(LAMBDA sum, e : sum + IF Text(e.word) = w THEN e.count ELSE 0, 0, Live)

\* "divide file on a word border ... Assign each portion of the file to a thread":
\* once the sections are done every word is counted as often as it occurs.
EveryWordCounted ==
    pc \notin {"split", "join_map"} =>
        \A p \in WordStarts : CountOf(FileWord(p)) = Occurrences(FileWord(p))

\* The result has one entry for each word, the most frequent first.
TopWordsFirst ==
    pc = "done" =>
        \A k, l \in DOMAIN words[0] :
            k < l => /\ words[0][k].count >= words[0][l].count
                     /\ Text(words[0][k].word) # Text(words[0][l].word)

\* The program ends.
Terminates == <>(pc = "done")
=============================================================================
