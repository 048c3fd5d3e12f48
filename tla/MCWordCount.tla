---------------------------- MODULE MCWordCount ----------------------------
(* Instances of WordCount for TLC.  In the files, 97 and 65 are the letter a in
   lower and upper case, 66 is B, 39 an apostrophe, 32 a blank and 44 a comma. *)
EXTENDS WordCount

FilesOf(n, chars) == [1..n -> chars]

\* Files whose size the number of processors divides, and files for one or two.
WholeJobs ==
    {[file |-> f, num_procs |-> 3] : f \in FilesOf(6, {97, 32}) \cup
        {<<66, 32, 97, 32, 65, 44, 66, 32, 97>>, <<97, 39, 66, 32, 39, 97>>,
         <<66, 66, 66, 66, 66, 66>>, <<66, 97, 32, 66, 32, 66>>}}
    \cup {[file |-> f, num_procs |-> 2] : f \in FilesOf(5, {97, 32})}
    \cup {[file |-> <<66, 32, 97, 32, 66>>, num_procs |-> n] : n \in {1, 2, 5}}
    \cup {[file |-> <<97, 32, 66, 32, 97, 32, 66, 32, 97, 66>>, num_procs |-> 5]}

\* Three processors and a size with a remainder of two.
RemainderJobs == {[file |-> f, num_procs |-> 3] : f \in FilesOf(5, {97, 32})}
=============================================================================
