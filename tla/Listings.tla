------------------------------ MODULE Listings ------------------------------
(***************************************************************************)
(* The listings that only read: the catalog of tables, the object store's, *)
(* the backup server's.  Each is folded from several answers of a thing    *)
(* that moves between them.  They share no state, so a behaviour is about  *)
(* one of them, the subject, and the two others rest.                      *)
(***************************************************************************)
EXTENDS SourcesCache, S3Listing, PbsReads

VARIABLE subject

Rest(s) ==
  CASE s = "catalog" -> tables = {}
    [] s = "objects" -> buckets = {}
    [] s = "backups" -> \A t \in Range(Stores) : gc[t] = "none"

ListingsInit ==
  /\ Init /\ S3Init /\ PbsInit
  /\ subject \in {"catalog", "objects", "backups"}
  /\ \A s \in {"catalog", "objects", "backups"} \ {subject} : Rest(s)

ListingsNext ==
  \/ subject = "catalog" /\ Next /\ UNCHANGED <<s3Vars, pbsVars, subject>>
  \/ subject = "objects" /\ S3Next /\ UNCHANGED <<vars, pbsVars, subject>>
  \/ subject = "backups" /\ PbsNext /\ UNCHANGED <<vars, s3Vars, subject>>

ListingsSpec == ListingsInit /\ [][ListingsNext]_<<vars, s3Vars, pbsVars, subject>>

-----------------------------------------------------------------------------
(* Property *)

\* "So a cut list says so" (pbs.py), of the objects of a bucket, the snapshots of a
\* datastore and the tasks of the backup server: what is cut off is older than all
\* that is shown, the numbers beside the list are of all of it, and it says that
\* something is missing when, and only when, something is.
CutsAreTold == CutShowsNewest /\ PbsCutsTold
=============================================================================
