------------------------------- MODULE BaseCv -------------------------------
(***************************************************************************)
(* The CVs of one user (app/services/cv_generator.py, app/api/v1/cv.py):   *)
(* generation of base and tailored CVs, recovery of the previous base,     *)
(* deletion, download, and the compilation of a PDF behind each row.       *)
(*                                                                         *)
(* A request is a sequence of database steps; between two of them other    *)
(* requests run.  What a session loaded stays as it was loaded (identity   *)
(* map, expire_on_commit=False), and a commit writes the changed column    *)
(* WHERE id = ..., so it may act on rows that changed or vanished since.   *)
(*                                                                         *)
(* Storage is the local disk, the fallback when R2 is not configured.      *)
(***************************************************************************)
EXTENDS Naturals, FiniteSets

CONSTANTS
  Requests,    \* requests the user has in flight at a time
  MaxCvs,      \* bound: CVs ever generated
  MaxChanges,  \* bound: recoveries, deletions and downloads
  Charges,     \* whether a gate charges: an administrator and a free action pay nothing
  NoRequest

ASSUME BaseCvAssumption ==
  /\ MaxCvs \in Nat /\ MaxChanges \in Nat
  /\ Charges \subseteq BOOLEAN
  /\ IsFiniteSet(Requests) /\ NoRequest \notin Requests

VARIABLES
  rows,      \* table generated_cvs: id -> status and pdf_path set or not
  changes,   \* recoveries, deletions and downloads begun
  created,   \* rows inserted so far; ids follow created_at
  pc,        \* where each request is
  loaded,    \* the rows the session of each request has loaded
  target,    \* the CV named in the path of each request, 0 for none
  lock,      \* the request that holds the lock on the user's credit account
  files,     \* PDF files on the disk
  task,      \* background compilation of each CV
  shared,    \* history: requests in flight that another one overlapped
  raced,     \* history: two requests overlapped at some time
  crashed    \* history: the process was restarted

vars == <<rows, created, pc, loaded, target, lock, files, task, shared, raced, crashed,
          changes>>

Cvs == 1 .. MaxCvs

(* cv_type, base_status and is_deleted of a row in one value.              *)
Statuses == {"active", "obsolete", "personalized", "hidden"}
Row == [status : Statuses, pdf : BOOLEAN]

WithStatus(s) == {c \in DOMAIN rows : rows[c].status = s}
Bases == WithStatus("active") \union WithStatus("obsolete")
LoadedAs(r, s) == {c \in DOMAIN loaded[r] : loaded[r][c].status = s}

(* ORDER BY created_at ASC LIMIT 1, as a set of at most one id.            *)
Oldest(S) == {c \in S : \A d \in S : c <= d}

Load(S) == [c \in S |-> rows[c]]

(* A row the session holds already keeps what was loaded first.            *)
AlsoLoad(r, S) == [c \in DOMAIN loaded[r] \union S |->
                     IF c \in DOMAIN loaded[r] THEN loaded[r][c] ELSE rows[c]]

-----------------------------------------------------------------------------
(* One flush: UPDATE base_status of the ids in DOMAIN status, then DELETE. *)
(* A DELETE that matches no row is a warning.                              *)
Written(status, deleted) ==
  [c \in DOMAIN rows \ deleted |->
     IF c \in DOMAIN status THEN [rows[c] EXCEPT !.status = status[c]] ELSE rows[c]]

(* A single UPDATE that matches no row raises StaleDataError; the driver   *)
(* gives no row count for a batch of several, which is not checked.        *)
MissesItsRow(S) == Cardinality(S) = 1 /\ S \intersect DOMAIN rows = {}

InFlight == {r \in Requests : pc[r] # "idle"}
Generating == {r \in Requests :
                 pc[r] \in {"generating base", "bases loaded", "demoted", "tailoring"}}

(* The request starts: bookkeeping of the history variables.               *)
Starts(r) ==
  /\ shared' = (shared \ {r}) \union (IF InFlight = {} THEN {} ELSE InFlight \union {r})
  /\ raced' = (raced \/ InFlight # {})

At(r, place) == pc' = [pc EXCEPT ![r] = place]
Released(r) == IF lock = r THEN NoRequest ELSE lock

(* The request ends: answered, or rolled back and failed.                  *)
Ends(r) ==
  /\ pc' = [pc EXCEPT ![r] = "idle"]
  /\ loaded' = [loaded EXCEPT ![r] = <<>>]
  /\ target' = [target EXCEPT ![r] = 0]
  /\ lock' = Released(r)
  /\ shared' = shared \ {r}
  /\ UNCHANGED raced

-----------------------------------------------------------------------------
(* enforce_action_gate: the charge is flushed, not committed, so the       *)
(* credit account stays locked until the first commit of the request.      *)
Gate(r, place) ==
  /\ pc[r] = "idle" /\ created + Cardinality(Generating) < MaxCvs
  /\ lock = NoRequest
  /\ \E charged \in Charges : lock' = IF charged THEN r ELSE NoRequest
  /\ At(r, place) /\ Starts(r)
  /\ UNCHANGED <<changes, rows, created, loaded, target, files, task, crashed>>

(* A failed LLM call: the exception rolls the charge back.                 *)
GenerationFails(r) ==
  /\ pc[r] \in {"generating base", "tailoring"}
  /\ Ends(r)
  /\ UNCHANGED <<changes, rows, created, files, task, crashed>>

(* The next row, with the compilation the endpoint schedules for it.       *)
Insert(status) ==
  /\ created' = created + 1
  /\ rows' = [c \in DOMAIN rows \union {created + 1} |->
                IF c = created + 1 THEN [status |-> status, pdf |-> FALSE] ELSE rows[c]]
  /\ task' = [task EXCEPT ![created + 1] = "compiling"]

-----------------------------------------------------------------------------
(* POST /cv/base                                                           *)

(* _user_base_cvs, after the LLM answered.                                 *)
SelectBases(r) ==
  /\ pc[r] = "generating base"
  /\ loaded' = [loaded EXCEPT ![r] = Load(Bases)]
  /\ At(r, "bases loaded")
  /\ UNCHANGED <<changes, rows, created, target, lock, files, task, shared, raced, crashed>>

ReplacedNone(r) == {}
Replaced(r) == LoadedAs(r, "obsolete")
DemotedOldest(r) == Oldest(LoadedAs(r, "active"))
Demoted(r) == LoadedAs(r, "active")

(* _demote_previous_bases: the files of the replaced bases go first, then  *)
(* one commit, which includes the charge.  Without bases nothing is        *)
(* committed here.                                                         *)
DemotePreviousBases(r) ==
  /\ pc[r] = "bases loaded" /\ ~MissesItsRow(Demoted(r))
  /\ files' = files \ {c \in Replaced(r) : loaded[r][c].pdf}
  /\ rows' = Written([c \in Demoted(r) |-> "obsolete"], Replaced(r))
  /\ lock' = IF loaded[r] = <<>> THEN lock ELSE Released(r)
  /\ At(r, "demoted")
  /\ UNCHANGED <<changes, created, loaded, target, task, shared, raced, crashed>>

DemotionFails(r) ==
  /\ pc[r] = "bases loaded" /\ MissesItsRow(Demoted(r))
  /\ files' = files \ {c \in Replaced(r) : loaded[r][c].pdf}
  /\ Ends(r)
  /\ UNCHANGED <<changes, rows, created, task, crashed>>

(* _persist_and_compile of the new base.                                   *)
PersistBase(r) ==
  /\ pc[r] = "demoted"
  /\ Insert("active")
  /\ Ends(r)
  /\ UNCHANGED <<changes, files, crashed>>

-----------------------------------------------------------------------------
(* POST /cv/personalize, /cv/personalize-job and /cv/adapt-url: the last   *)
(* two want an active base and read its JSON before the LLM call.          *)
Tailor(r) == Gate(r, "tailoring")
Adapt(r) == WithStatus("active") # {} /\ Gate(r, "tailoring")

PersistTailored(r) ==
  /\ pc[r] = "tailoring"
  /\ Insert("personalized")
  /\ Ends(r)
  /\ UNCHANGED <<changes, files, crashed>>

-----------------------------------------------------------------------------
(* POST /cv/base/recover                                                   *)

(* The SELECT of the previous base; anything but an obsolete base is 422.  *)
Recover(r, c) ==
  /\ changes < MaxChanges /\ changes' = changes + 1
  /\ pc[r] = "idle" /\ c \in WithStatus("obsolete")
  /\ target' = [target EXCEPT ![r] = c]
  /\ loaded' = [loaded EXCEPT ![r] = Load({c})]
  /\ At(r, "previous loaded") /\ Starts(r)
  /\ UNCHANGED <<rows, created, lock, files, task, crashed>>

(* _user_active_base_cv                                                    *)
SelectActive(r) ==
  /\ pc[r] = "previous loaded"
  /\ loaded' = [loaded EXCEPT ![r] = AlsoLoad(r, Oldest(WithStatus("active")))]
  /\ At(r, "active loaded")
  /\ UNCHANGED <<changes, rows, created, target, lock, files, task, shared, raced, crashed>>

RecoverPreviousBase(r) ==
  /\ pc[r] = "active loaded"
  /\ rows' = IF MissesItsRow(DOMAIN loaded[r]) THEN rows
             ELSE Written([c \in DOMAIN loaded[r] |->
                             IF c = target[r] THEN "active" ELSE "obsolete"], {})
  /\ Ends(r)
  /\ UNCHANGED <<changes, created, files, task, crashed>>

-----------------------------------------------------------------------------
(* DELETE /cv/{id}                                                         *)

(* get_cv: a hidden row is 404.                                            *)
Delete(r, c) ==
  /\ changes < MaxChanges /\ changes' = changes + 1
  /\ pc[r] = "idle" /\ c \in DOMAIN rows /\ rows[c].status # "hidden"
  /\ target' = [target EXCEPT ![r] = c]
  /\ loaded' = [loaded EXCEPT ![r] = Load({c})]
  /\ At(r, "victim loaded") /\ Starts(r)
  /\ UNCHANGED <<rows, created, lock, files, task, crashed>>

(* _user_obsolete_base_cv, only when the victim was loaded as active.      *)
SelectObsolete(r) ==
  /\ pc[r] = "victim loaded" /\ target[r] \in LoadedAs(r, "active")
  /\ loaded' = [loaded EXCEPT ![r] = AlsoLoad(r, Oldest(WithStatus("obsolete")))]
  /\ At(r, "promotion loaded")
  /\ UNCHANGED <<changes, rows, created, target, lock, files, task, shared, raced, crashed>>

RemovesFile(r) == IF loaded[r][target[r]].pdf THEN {target[r]} ELSE {}
PromotedNone(r) == {}
Promoted(r) == DOMAIN loaded[r] \ {target[r]}

(* _hard_delete_base, with the promotion of the previous base if any.      *)
HardDelete(r) ==
  /\ \/ pc[r] = "promotion loaded"
     \/ pc[r] = "victim loaded" /\ target[r] \in LoadedAs(r, "obsolete")
  /\ files' = files \ RemovesFile(r)
  /\ rows' = IF MissesItsRow(Promoted(r)) THEN rows
             ELSE Written([c \in Promoted(r) |-> "active"], {target[r]})
  /\ Ends(r)
  /\ UNCHANGED <<changes, created, task, crashed>>

(* The soft delete of a tailored CV.                                       *)
SoftDelete(r) ==
  /\ pc[r] = "victim loaded" /\ target[r] \in LoadedAs(r, "personalized")
  /\ files' = files \ RemovesFile(r)
  /\ rows' = Written([c \in {target[r]} |-> "hidden"], {})
  /\ Ends(r)
  /\ UNCHANGED <<changes, created, task, crashed>>

-----------------------------------------------------------------------------
(* GET /cv/{id}/download of a CV whose file is gone: recompile_pdf_sync    *)
(* writes the file again; pdf_path does not change, so no UPDATE is sent.  *)
Download(r, c) ==
  /\ changes < MaxChanges /\ changes' = changes + 1
  /\ pc[r] = "idle" /\ c \in DOMAIN rows \ files
  /\ rows[c].status # "hidden" /\ rows[c].pdf
  /\ target' = [target EXCEPT ![r] = c]
  /\ loaded' = [loaded EXCEPT ![r] = Load({c})]
  /\ At(r, "recompiling") /\ Starts(r)
  /\ UNCHANGED <<rows, created, lock, files, task, crashed>>

RecompilePdfSync(r) ==
  /\ pc[r] = "recompiling"
  /\ files' = files \union {target[r]}
  /\ Ends(r)
  /\ UNCHANGED <<changes, rows, created, task, crashed>>

-----------------------------------------------------------------------------
(* compile_cv_in_background                                                *)

Compile(c) ==
  /\ task[c] = "compiling"
  /\ files' = files \union {c}
  /\ task' = [task EXCEPT ![c] = "written"]
  /\ UNCHANGED <<changes, rows, created, pc, loaded, target, lock, shared, raced, crashed>>

CompileFailsUnnoticed(c) ==
  /\ task[c] = "compiling"
  /\ task' = [task EXCEPT ![c] = "written"]
  /\ UNCHANGED <<changes, rows, created, pc, loaded, target, lock, files, shared, raced, crashed>>

CompileFails(c) ==
  /\ task[c] = "compiling"
  /\ task' = [task EXCEPT ![c] = "done"]
  /\ UNCHANGED <<changes, rows, created, pc, loaded, target, lock, files, shared, raced, crashed>>

IsListed(c) == c \in DOMAIN rows /\ rows[c].status # "hidden"

(* db.get of the row: the PDF of a deleted CV is removed again.            *)
FindRow(c) ==
  /\ task[c] = "written"
  /\ task' = [task EXCEPT ![c] = IF IsListed(c) THEN "found" ELSE "done"]
  /\ files' = IF IsListed(c) THEN files ELSE files \ {c}
  /\ UNCHANGED <<changes, rows, created, pc, loaded, target, lock, shared, raced, crashed>>

(* pdf_path is committed; a row deleted meanwhile raises StaleDataError.   *)
RecordPdf(c) ==
  /\ task[c] = "found"
  /\ task' = [task EXCEPT ![c] = "done"]
  /\ rows' = IF c \in DOMAIN rows THEN [rows EXCEPT ![c].pdf = TRUE] ELSE rows
  /\ UNCHANGED <<changes, created, pc, loaded, target, lock, files, shared, raced, crashed>>

-----------------------------------------------------------------------------
(* A restart: open transactions are rolled back, compilations are lost,    *)
(* and an ephemeral disk is wiped.                                         *)
Crash ==
  /\ ~crashed /\ crashed' = TRUE
  /\ pc' = [r \in Requests |-> "idle"]
  /\ loaded' = [r \in Requests |-> <<>>]
  /\ target' = [r \in Requests |-> 0]
  /\ lock' = NoRequest /\ shared' = {}
  /\ task' = [c \in Cvs |-> IF task[c] = "none" THEN "none" ELSE "done"]
  /\ files' \in {files, {}}
  /\ UNCHANGED <<changes, rows, created, raced>>

Init ==
  /\ rows = <<>> /\ created = 0 /\ changes = 0
  /\ pc = [r \in Requests |-> "idle"]
  /\ loaded = [r \in Requests |-> <<>>]
  /\ target = [r \in Requests |-> 0]
  /\ lock = NoRequest
  /\ files = {} /\ task = [c \in Cvs |-> "none"]
  /\ shared = {} /\ raced = FALSE /\ crashed = FALSE

GenerateStep(r) ==
  \/ Gate(r, "generating base") \/ GenerationFails(r)
  \/ SelectBases(r) \/ DemotePreviousBases(r) \/ DemotionFails(r) \/ PersistBase(r)
  \/ Tailor(r) \/ Adapt(r) \/ PersistTailored(r)

LifecycleStep(r) ==
  \/ \E c \in Cvs : Recover(r, c) \/ Delete(r, c) \/ Download(r, c)
  \/ SelectActive(r) \/ RecoverPreviousBase(r)
  \/ SelectObsolete(r) \/ HardDelete(r) \/ SoftDelete(r)
  \/ RecompilePdfSync(r)

CompileStep(c) == Compile(c) \/ CompileFails(c) \/ FindRow(c) \/ RecordPdf(c)

(* The bounds are reached and nothing is in flight.                        *)
Done == created = MaxCvs /\ InFlight = {} /\ UNCHANGED vars

Next ==
  \/ \E r \in Requests : GenerateStep(r) \/ LifecycleStep(r)
  \/ \E c \in Cvs : CompileStep(c)
  \/ Crash
  \/ Done

Spec == Init /\ [][Next]_vars

-----------------------------------------------------------------------------
(* Properties                                                              *)

Places == {"idle", "generating base", "bases loaded", "demoted", "tailoring",
           "previous loaded", "active loaded", "victim loaded", "promotion loaded",
           "recompiling"}

Holder == {"generating base", "bases loaded", "demoted", "tailoring"}

(* Types; the credit account is locked only by a request that generates,   *)
(* so no failed or finished request keeps the user's other requests out.   *)
TypeOK ==
  /\ created \in 0 .. MaxCvs /\ changes \in 0 .. MaxChanges
  /\ DOMAIN rows \subseteq 1 .. created /\ \A c \in DOMAIN rows : rows[c] \in Row
  /\ pc \in [Requests -> Places]
  /\ target \in [Requests -> 0 .. created]
  /\ \A r \in Requests : DOMAIN loaded[r] \subseteq 1 .. created
  /\ lock = NoRequest \/ (lock \in Requests /\ pc[lock] \in Holder)
  /\ files \subseteq 1 .. created
  /\ task \in [Cvs -> {"none", "compiling", "written", "found", "done"}]
  /\ shared \subseteq InFlight /\ raced \in BOOLEAN /\ crashed \in BOOLEAN

(* "Never more than one active base CV and never a third document" holds   *)
(* as long as the user's requests never overlap, whatever their order and  *)
(* also when a restart cuts a generation between its two commits.          *)
SerialKeepsMaxTwo ==
  ~raced => /\ Cardinality(WithStatus("active")) <= 1
            /\ Cardinality(WithStatus("obsolete")) <= 1

(* Deleting, recovering and regenerating never leave a user who has a base *)
(* CV without an active one, except between the two commits of a           *)
(* generation: true without overlaps and restarts.                         *)
ActiveBaseSurvives ==
  ~raced /\ ~crashed /\ Bases # {}
  => WithStatus("active") # {} \/ \E r \in Requests : pc[r] = "demoted"

(* However many active bases earlier races left, a generation that nothing *)
(* overlaps ends with its own base as the only active one, and keeps no    *)
(* base that was obsolete before it began.                                 *)
GenerationHeals ==
  [][\A r \in Requests :
       pc[r] = "demoted" /\ created' > created /\ r \notin shared
       => /\ {c \in DOMAIN rows' : rows'[c].status = "active"} = {created'}
          /\ {c \in DOMAIN rows' : rows'[c].status = "obsolete"} = LoadedAs(r, "active")]_vars

(* A listed CV that offers a PDF has its file: failed compilations, late   *)
(* ones and deletions of other versions never leave pdf_path dangling,     *)
(* without overlapping requests and with a disk that is not wiped.         *)
PdfIsKept ==
  ~raced /\ ~crashed
  => \A c \in DOMAIN rows : rows[c].status # "hidden" /\ rows[c].pdf => c \in files

(* generate_base_cv: "there is never more than one active base CV and      *)
(* never a third document".                                                *)
NeverAThirdDocument ==
  Cardinality(WithStatus("active")) <= 1 /\ Cardinality(Bases) <= 2

=============================================================================
