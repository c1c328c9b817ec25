------------------------------ MODULE MCWorker ------------------------------
(* Instances of MediaWorker for TLC. *)
EXTENDS MediaWorker, TLC, Functions

CONSTANTS h1, h2, good, other, wrong, virus

Original(kind, key, sum) ==
    [kind |-> kind, key |-> key, sum |-> sum, hls |-> FALSE, pdf |-> FALSE]

\* A clean file with and without declared checksum, and the three rejections:
\* another file than the declared one, another type, an infected file.
VideoUploads == { Original("video", good, Null), Original("video", good, good),
                  Original("video", good, other), Original("video", wrong, Null),
                  Original("video", virus, virus) }
CleanVideo   == { Original("video", good, Null) }
SlideUploads == { Original("presentation", good, Null) }
ImageUploads == { Original("image", good, good), Original("image", virus, Null) }

AllUploads   == VideoUploads \cup SlideUploads \cup ImageUploads
MixedUploads == CleanVideo \cup SlideUploads \cup { Original("image", virus, Null) }

\* Every reason to accept or reject once, as a video or as an image.
FaultUploads == (VideoUploads \cup ImageUploads)
                    \ { Original("video", good, good), Original("video", virus, virus) }

Only(f, n) == [k \in Faults |-> IF k = f THEN n ELSE 0]
Each(fs)   == [k \in Faults |-> IF k \in fs THEN 1 ELSE 0]

\* Faults of every sort, two of them in one behaviour.
AnyFault  == Each(Faults)
TwoFaults == FoldFunction(+, 0, spent) <= 2

\* No goroutine outlives its delivery and no task is put back in the queue.
NoZombies   == [Each({"crash", "tool", "redis"}) EXCEPT !["db"] = 2]

\* Every failure of the tools that the deliveries of two jobs can meet.
ToolFaults  == Only("tool", 2 * MaxAttempts)

OneCrash    == Only("crash", 1)
ManyCrashes == Only("crash", MaxAttempts)
OneEdit     == Only("edit", 1)

Symmetry == Permutations(Handlers)
=============================================================================
