--------------------------- MODULE MCJobLifecycle ---------------------------
(* Instances of JobLifecycle for TLC.                                      *)
EXTENDS JobLifecycle, TLC

CONSTANTS j1, j2, f1, w1, w2

OneFile == {f1}
AllOnF1 == [j \in Jobs |-> f1]

\* One PDF thumbnail: the only kind of job with every error path.
OneJob == {j1}
OneWorker == {w1}
OnePdf == [j \in Jobs |-> "pdf_thumbnail"]

\* A job of a kind the API accepts and documents.
OneHls == [j \in Jobs |-> "video_hls"]

\* Two transcodes of one video, as POST /video/transcode creates them for two
\* resolutions.  The jobs are alike, and so are the workers.
TwoJobs == {j1, j2}
TwoWorkers == {w1, w2}
BothTranscode == [j \in Jobs |-> "video_transcode"]
Alike == Permutations(TwoJobs) \cup Permutations(TwoWorkers)
=============================================================================
