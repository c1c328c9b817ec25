------------------------------- MODULE MCQuiz -------------------------------
(* Instances of QuizAttempts for TLC. *)
EXTENDS QuizAttempts, TLC

CONSTANTS r1, r2, a1, a2, a3, k1, k2, q1, q2

\* A quiz of two questions has one attempt without a deadline: the second question
\* only meets the snapshot, the answers and the grade of the attempt it is added
\* to, and one key does for its submissions.
OneOfTwoQuestions ==
    Cardinality(asked) = 2 =>
        /\ Cardinality(Created) <= 1 /\ ~timed
        /\ Cardinality(({qmem[r].key : r \in Requests} \cup {attempts[a].key : a \in Attempts})
                           \ {Null}) <= 1

Symmetry == Permutations(Requests) \cup Permutations(Attempts)
                \cup Permutations(Keys) \cup Permutations(Questions)
=============================================================================
