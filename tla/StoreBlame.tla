----------------------------- MODULE StoreBlame -----------------------------
(* RecordingStore with a history variable: which faults hit which request,  *)
(* so that whatever is amiss when all is quiet can be traced to its cause.  *)
EXTENDS RecordingStore

VARIABLE hits   \* pairs of a request (or the recording it made) and a fault

blameVars == <<vars, hits>>

BlameInit == Init /\ hits = {}

\* A crash hits the requests at work and the deletions it cuts off.
CrashHits ==
    {<<r, "crash">> : r \in {x \in Requests :
                                pc[x] \notin {"new", "over"} \/ x \in cleanup}}

BlameNext ==
    \/ \E r \in Requests : Step(r) /\ UNCHANGED hits
    \/ \E r \in Requests, f \in Faults :
          Fault(r, f) /\ hits' = hits \cup {<<r, f>>}
    \/ "crash" \in Faults /\ Crash /\ hits' = hits \cup CrashHits

BlameSpec == BlameInit /\ [][BlameNext]_blameVars

Hit(r, kinds) == \E f \in kinds : <<r, f>> \in hits

\* A .part file that is left when all is quiet is that of a request which was
\* cancelled as it opened the file, whose look-up by hash raised, which a
\* crash cut off, or whose file could not be removed.  No other end of an
\* upload leaves one, and no other upload's fault does.
PartsExplained ==
    Quiet => \A r \in part :
        Hit(r, {"cancel_open", "lookup_error", "crash", "unlink_error"})

\* A final file that no recording refers to is that of a request which was
\* cancelled during the rename, which a crash cut off, or of a recording whose
\* deletion was cut off or could not remove it.
OrphansExplained ==
    Quiet => \A r \in final \ recordings :
        Hit(r, {"cancel_commit", "cancel_delete", "crash", "unlink_error"})

\* A recording without its file is that of an upload whose insert committed
\* without its knowing.
MissingExplained ==
    \A r \in recordings \ final : Hit(r, {"lost_ack"})
=============================================================================
