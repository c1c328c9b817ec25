----------------------------- MODULE MCProgress -----------------------------
(* Instances of CourseProgress for TLC. *)
EXTENDS CourseProgress, TLC

CONSTANTS r1, r2, video, quiz

\* The first version requires the video, the second one adds the quiz.
TwoVersions == << {video}, {video, quiz} >>

\* Active time is only gathered on the video: the quiz is completed by its
\* submissions.
VideoTime == rows[quiz].active = 0

Symmetry == Permutations(Requests)
=============================================================================
