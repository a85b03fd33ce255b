---------------------------- MODULE AnnictClient ----------------------------
(***************************************************************************)
(* The generated GraphQL client (annict/client_gen.go) as its callers see  *)
(* it: which queries a call makes one after the other or at once, which    *)
(* nulls in an answer a caller does not survive, and what becomes of an    *)
(* error.  The contents of answers are the subject of AnnictAPI and        *)
(* RecordTimes.                                                            *)
(***************************************************************************)

\* A call of the client; section tells the two listings of a dashboard apart.
Call(query, section) == [query |-> query, section |-> section]

GetProfile == Call("GetProfile", "all")
ListWorks(section) == Call("ListWorks", section)
ListRecords(section) == Call("ListRecords", section)
ListNextEpisodes == Call("ListNextEpisodes", "all")
GetWork == Call("GetWork", "all")
CreateRecord == Call("CreateRecordMutation", "all")
UpdateStatus == Call("UpdateStatusMutation", "all")
UpdateWorkStatus == Call("UpdateWorkStatus", "all")

Section == {"WATCHING", "WATCHED", "NO_STATE"}

Calls ==
  {GetProfile, ListNextEpisodes, GetWork, CreateRecord, UpdateStatus, UpdateWorkStatus}
    \cup {ListWorks(s) : s \in Section} \cup {ListRecords(s) : s \in Section}

-----------------------------------------------------------------------------
(* What follows an answer.  Several calls of one kind count as one.        *)

\* A page that is empty needs no records; the images of the works are fetched
\* beside the records, and are counted with them.
AfterListWorks(section) == {{}, {ListRecords(section)}}

AfterListNextEpisodes == SUBSET {CreateRecord, UpdateStatus}

AfterGetWork == {{UpdateWorkStatus, CreateRecord}}

\* The sets of calls that may follow the answer of call c.
After(c) ==
  CASE c.query = "ListWorks" -> AfterListWorks(c.section)
    [] c.query = "ListNextEpisodes" -> AfterListNextEpisodes
    [] c.query = "GetWork" -> AfterGetWork
    [] OTHER -> {{}}

-----------------------------------------------------------------------------
(* Nulls: the pointers of the generated types, and the elements of slices. *)

ProfileNulls == {"viewer", "avatarUrl"}
GetWorkNulls == {"searchWorks", "edge", "work", "episodes", "firstEpisode"}
NextEpisodesNulls ==
  {"viewer", "records", "edge", "record", "nextEpisode", "number", "numberText",
   "title", "nextEpisode.nextEpisode", "viewerStatusState"}
RecordsNulls == {"viewer", "records", "edge", "record", "number", "nextEpisode"}
WorksNulls ==
  {"viewer", "works", "edge", "work", "seasonYear", "seasonName",
   "officialSiteUrl", "wikipediaUrl", "viewerStatusState"}
PayloadNulls == {"createRecord", "updateStatus", "clientMutationId"}

\* The pointers that the callers test, and those that they never read.
Tested == {"avatarUrl", "officialSiteUrl", "wikipediaUrl", "nextEpisode"}
Unread == {"number", "nextEpisode.nextEpisode"} \cup PayloadNulls

Nulls(query) ==
  CASE query = "GetProfile" -> ProfileNulls
    [] query = "ListWorks" -> WorksNulls
    [] query = "ListRecords" -> RecordsNulls
    [] query = "ListNextEpisodes" -> NextEpisodesNulls
    [] query = "GetWork" -> GetWorkNulls
    [] OTHER -> PayloadNulls

\* Some null in the answer makes the caller panic.
MayPanic(query) == Nulls(query) \ (Tested \cup Unread) # {}

-----------------------------------------------------------------------------
(* Errors.                                                                 *)

\* Mutant of ConvertError: every error is put down to the client.
ConvertErrorToCanceled(e) == "Canceled"

\* Errors are told apart by identity: one that wraps context.Canceled, as the
\* HTTP client makes it, is "other".
ConvertError(e) ==
  CASE e = "context.Canceled" -> "Canceled"
    [] e = "context.DeadlineExceeded" -> "DeadlineExceeded"
    [] OTHER -> "Internal"

-----------------------------------------------------------------------------
(* The dummy server of the development mode (testutil/annict_server.go).   *)

\* Mutant of DummyKnows: listRecords, which begins with a small letter, is
\* looked for under a capital one.
DummyKnowsCapitals(query) ==
  query \in {"GetWork", "GetProfile", "ListWorks", "ListNextEpisodes",
             "CreateRecordMutation", "UpdateStatusMutation"}

\* The queries it has an answer to; to any other its body is empty.
DummyKnows(query) ==
  query \in {"GetWork", "GetProfile", "ListWorks", "ListRecords", "ListNextEpisodes",
             "CreateRecordMutation", "UpdateStatusMutation"}
=============================================================================
