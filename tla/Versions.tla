------------------------------- MODULE Versions --------------------------------
(***************************************************************************)
(* The versions of knowledge documents: numbered under the row lock of the *)
(* document, verified, indexed, reviewed, published for a span of time and *)
(* withdrawn.  Publication shortens the spans of earlier versions of the   *)
(* document, so that a reader who asks for any day gets one answer.        *)
(*                                                                         *)
(* Each action is a transaction under the row locks it takes; Ingestion    *)
(* describes what is between "uploaded" and "review".                      *)
(***************************************************************************)
EXTENDS Naturals

CONSTANTS
    Version,    \* the rows of knowledge_versions a behaviour may insert
    Document,   \* documents, each the set of the rows that are inserted for it
    Content,    \* sha256 of the files users may upload
    NoContent,  \* the file of a row not yet inserted
    MaxDay      \* bound: days on which a version may come into force

ASSUME VersionsBounds == MaxDay \in Nat \ {0} /\ NoContent \notin Content

ASSUME DocumentsApart ==
    /\ UNION Document = Version
    /\ \A c, d \in Document : c # d => c \cap d = {}

VARIABLE version   \* the rows

Days == 1 .. MaxDay
Never == 0         \* effective_to IS NULL

VersionStatus == {"absent", "uploading", "uploaded", "review", "approved", "rejected",
                  "published", "withdrawn"}

VersionsTypeOK ==
    /\ version \in [Version -> [status : VersionStatus, number : Nat,
                             content : Content \cup {NoContent},
                             from : 0 .. MaxDay, to : 0 .. MaxDay]]
    /\ \A v \in Version : version[v].to = Never \/ version[v].from < version[v].to

NoVersion == [status |-> "absent", number |-> 0, content |-> NoContent,
              from |-> 0, to |-> Never]

VersionsInit == version = [v \in Version |-> NoVersion]

Stored == {v \in Version : version[v].status # "absent"}
Published == {v \in Version : version[v].status = "published"}

\* The rows of the document of v.
With(v) == UNION {d \in Document : v \in d}

\* Faulty: rejected versions are not counted.
NextNumberOfKept(v, n) ==
    /\ \A u \in Stored \cap With(v) : version[u].status # "rejected" => version[u].number < n
    /\ n = 1 \/ \E u \in Stored \cap With(v) : version[u].number = n - 1

\* max(number) + 1 in the document of v.
NextNumber(v, n) ==
    /\ \A u \in Stored \cap With(v) : version[u].number < n
    /\ n = 1 \/ \E u \in Stored \cap With(v) : version[u].number = n - 1

\* Faulty: content is not compared.
CreateVersionTwice(v, n, content, from, to) ==
    /\ version[v].status = "absent"
    /\ NextNumber(v, n)
    /\ to = Never \/ from < to
    /\ version' = [version EXCEPT ![v] =
           [status |-> "uploading", number |-> n, content |-> content,
            from |-> from, to |-> to]]

\* create_version: the document is locked, content must be new to it.
CreateVersion(v, n, content, from, to) ==
    /\ version[v].status = "absent"
    /\ \A u \in Stored \cap With(v) : version[u].content # content
    /\ NextNumber(v, n)
    /\ to = Never \/ from < to
    /\ version' = [version EXCEPT ![v] =
           [status |-> "uploading", number |-> n, content |-> content,
            from |-> from, to |-> to]]

MovesVersion(v, from, to) ==
    /\ version[v].status \in from
    /\ version' = [version EXCEPT ![v].status = to]

VerifyVersion(v) == MovesVersion(v, {"uploading"}, "uploaded")
IngestVersion(v) == MovesVersion(v, {"uploaded"}, "review")

\* Faulty: a published version may be corrected, too.
CorrectPublishedVersion(v) == MovesVersion(v, {"review", "rejected", "published"}, "uploaded")

CorrectVersion(v) == MovesVersion(v, {"review", "rejected"}, "uploaded")
ApproveVersion(v) == MovesVersion(v, {"review"}, "approved")
RejectVersion(v) == MovesVersion(v, {"review"}, "rejected")
WithdrawVersion(v) == MovesVersion(v, {"published"}, "withdrawn")

\* Faulty: the span of a predecessor is cut only if it is open.
CutOpen(row, day) == IF row.to = Never THEN day ELSE row.to

\* The span of a predecessor ends where the new one begins.
Cut(row, day) == IF row.to = Never \/ row.to > day THEN day ELSE row.to

\* publish_version holds the document, so no other publication interferes.
PublishVersion(v) ==
    /\ version[v].status = "approved"
    /\ \A u \in Published \cap With(v) : version[u].from < version[v].from
    /\ version' = [u \in Version |->
           IF u = v THEN [version[u] EXCEPT !.status = "published"]
           ELSE IF u \in Published \cap With(v)
                THEN [version[u] EXCEPT !.to = Cut(version[u], version[v].from)]
           ELSE version[u]]

\* What the editors of the knowledge base do with a version that exists.
EditVersion(v) ==
    \/ VerifyVersion(v) \/ IngestVersion(v) \/ CorrectVersion(v)
    \/ ApproveVersion(v) \/ RejectVersion(v) \/ PublishVersion(v)

Numbers == {version[u].number + 1 : u \in Version}

UploadVersion(v) ==
    \E n \in Numbers, c \in Content, from \in Days, to \in {Never} \cup Days :
        CreateVersion(v, n, c, from, to)

VersionsNext == \E v \in Version : UploadVersion(v) \/ EditVersion(v) \/ WithdrawVersion(v)

VersionsSpec == VersionsInit /\ [][VersionsNext]_version

-------------------------------------------------------------------------------
(* Properties. *)

\* visible_versions, for a question about a day.
InForce(v, day) ==
    /\ version[v].status = "published"
    /\ version[v].from <= day
    /\ version[v].to = Never \/ day < version[v].to

\* A day has at most one version of a document in force, in whatever order versions
\* were uploaded, reviewed, published and withdrawn.
OneInForce ==
    \A d \in Document, day \in Days : \A u, v \in d :
        InForce(u, day) /\ InForce(v, day) => u = v

\* No two versions of a document share a number, withdrawn and rejected ones included.
NumbersAreUnique ==
    \A d \in Document : \A u, v \in d \cap Stored :
        version[u].number = version[v].number => u = v

\* A published text is never put back into an earlier state, replaced or moved to
\* another day; its span only gets shorter.
PublishedHistoryStands ==
    [][\A v \in Version : version[v].status \in {"published", "withdrawn"} =>
          /\ version'[v].status \in {"published", "withdrawn"}
          /\ version'[v].content = version[v].content
          /\ version'[v].from = version[v].from
          /\ version[v].to # Never => version'[v].to \in 1 .. version[v].to]_version

\* The versions of a document in every state: numbered apart, at most one in force.
VersionsInv == VersionsTypeOK /\ OneInForce /\ NumbersAreUnique
===============================================================================
