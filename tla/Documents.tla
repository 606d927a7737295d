----------------------------- MODULE Documents -----------------------------
(***************************************************************************)
(* The papers and pictures of resorts, agents and experiences: business    *)
(* profiles and who names them, rows that point to uploaded files, and     *)
(* their review (ResortsService, AgentsService, ExperiencesService,        *)
(* AdminService and UploadService).                                        *)
(*                                                                         *)
(* The database and the file store (S3) are changed one after the other,   *)
(* each statement on its own: requests interleave between any two, and     *)
(* may stop there.  A new profile, and a file under a new name, are made   *)
(* together with what the request did before: nobody sees either until it  *)
(* is named.  There is one type of document; the others are the same,      *)
(* apart from each other.                                                  *)
(***************************************************************************)
EXTENDS Integers, FiniteSets

CONSTANTS
    Null,        \* nothing
    None,        \* no row yet
    Gone,        \* a deleted row; its id is not used again
    Resorts,
    Agents,      \* users with the role agent
    Experiences,
    Profiles,    \* bound: rows of business_profiles
    Docs,        \* bound: rows of business_documents and experience_images
    Files,       \* bound: names of files; each upload of the services' own takes
                 \* a new one
    Calls,       \* requests in progress at the same time
    MaxLost      \* bound: deletions that stop half-way, and files that clients
                 \* take by name

Holders == Profiles \cup Experiences

ASSUME DocumentsAssumption ==
    /\ Null \notin Resorts \cup Agents \cup Holders \cup Docs \cup Files
    /\ None \notin Resorts \cup Agents \cup Profiles \cup {Null}
    /\ Null # Gone /\ None # Gone
    /\ Profiles \cap Experiences = {}
    /\ Resorts \cap Agents = {}
    /\ IsFiniteSet(Calls) /\ IsFiniteSet(Docs)
    /\ MaxLost \in Nat

VARIABLES
    profile,   \* business_profiles: whose each is
    resort,    \* the profile each resort names
    removed,   \* resorts that are deleted
    agreement, \* resort_agents: the profile each row names, by agent and resort,
               \* or by agent and Null: a row may be of no resort
    doc,       \* rows with a file
    file,      \* the file store; a file that a client has a URL for counts
    swapped,   \* history: documents replaced while a review was written
    cut,       \* history: documents whose deletion stopped half-way
    doubled,   \* history: profiles that have had two documents of the type
    astray,    \* history: agents whose profile was made twice or not linked
    loose,     \* history: files that a client deleted or overwrote by name, or
               \* named when they were not there or another row's
    call       \* what each request is in the middle of

papers == <<doc, file>>
parties == <<profile, resort, removed, agreement>>
history == <<swapped, cut, doubled, astray, loose>>
vars == <<papers, parties, history, call>>

-----------------------------------------------------------------------------
(* Rows and requests *)

Opt(S) == S \cup {Null}

\* read: history, the file that the reviewer who approved it had read.  A
\* rejected document counts as "uploaded": both wait, for a new file or verdict.
Doc == [holder : Holders, file : Files, read : Opt(Files),
        status : {"uploaded", "approved"}]

Steps == {"idle", "resort", "agent", "link", "assign", "find",
          "replace", "insert", "review", "blob", "row"}

\* A document is a record, not one of the marks.
ASSUME MarksAssumption == None \notin Doc /\ Gone \notin Doc

Call == [at : Steps, who : Opt(Resorts \cup Agents), resort : Opt(Resorts),
         holder : Opt(Holders), file : Opt(Files), doc : Opt(Docs),
         verdict : Opt({"approved", "rejected"})]

NoCall == [at |-> "idle", who |-> Null, resort |-> Null, holder |-> Null,
           file |-> Null, doc |-> Null, verdict |-> Null]

At(c, step) == call[c].at = step
Begin(c, r) == At(c, "idle") /\ call' = [call EXCEPT ![c] = r]
Go(c, r) == call' = [call EXCEPT ![c] = r]
Return(c) == Go(c, NoCall)

Exists(d) == doc[d] \notin {None, Gone}
DocsOf(h) == {d \in Docs : Exists(d) /\ doc[d].holder = h}
AgreementsOf(a) == {r \in Opt(Resorts) : agreement[a][r] # None}
ProfilesOf(a) == {agreement[a][r] : r \in AgreementsOf(a)} \ {Null}
Open(r) == resort[r] # None /\ r \notin removed
Named(p) == \/ \E r \in Resorts : Open(r) /\ resort[r] = p
            \/ \E a \in Agents : p \in ProfilesOf(a)

\* Another request is making a profile for the agent.
Making(a) == \E c \in Calls : call[c].who = a /\ call[c].at \in {"link", "assign"}

\* Some resorts and agreements may be older than business profiles; bound: no
\* agreement of no resort is.
Init ==
    /\ profile = [p \in Profiles |-> None]
    /\ resort \in [Resorts -> {None, Null}] /\ removed = {}
    /\ agreement \in [Agents -> [Opt(Resorts) -> {None, Null}]]
    /\ \A a \in Agents : /\ agreement[a][Null] = None
                        /\ \A r \in Resorts : resort[r] = None => agreement[a][r] = None
    /\ doc = [d \in Docs |-> None]
    /\ file = [f \in Files |-> "none"]
    /\ swapped = {} /\ cut = {} /\ doubled = {} /\ astray = {} /\ loose = {}
    /\ call = [c \in Calls |-> NoCall]

-----------------------------------------------------------------------------
(* Profiles *)

NewProfile(p, who) == profile[p] = None /\ profile' = [profile EXCEPT ![p] = who]

\* ResortsService.create: the profile, then the resort.
CreateResort(c, r, p) ==
    /\ resort[r] = None
    /\ \A d \in Calls : call[d].who # r
    /\ NewProfile(p, r)
    /\ Begin(c, [NoCall EXCEPT !.at = "resort", !.who = r, !.holder = p])
    /\ UNCHANGED <<resort, removed, agreement, papers, history>>

ResortCreated(c) ==
    /\ At(c, "resort")
    /\ resort' = [resort EXCEPT ![call[c].who] = call[c].holder]
    /\ Return(c)
    /\ UNCHANGED <<profile, removed, agreement, papers, history>>

\* ResortsService.remove: the agreements keep the row, the profile stays.
RemoveResort(r) ==
    /\ Open(r)
    /\ \A a \in Agents : r \notin AgreementsOf(a)
    /\ removed' = removed \cup {r}
    /\ UNCHANGED <<profile, resort, agreement, papers, history, call>>

\* AgentsService.createAgent: a new user, its profile, its agreement with the
\* resort the requester owns, or with none.
CreateAgent(c, a, r, p) ==
    /\ r # Null => Open(r)
    /\ AgreementsOf(a) = {}
    /\ \A d \in Calls : call[d].who # a
    /\ a \notin astray
    /\ NewProfile(p, a)
    /\ Begin(c, [NoCall EXCEPT !.at = "agent", !.who = a, !.resort = r, !.holder = p])
    /\ UNCHANGED <<resort, removed, agreement, papers, history>>

AgentCreated(c) ==
    LET r == call[c] IN
    /\ At(c, "agent")
    /\ r.resort # Null => Open(r.resort)
    /\ agreement' = [agreement EXCEPT ![r.who] = [@ EXCEPT ![r.resort] = r.holder]]
    /\ Return(c)
    /\ UNCHANGED <<profile, resort, removed, papers, history>>

\* createAgreement, for who has an agreement with another resort: it names
\* no profile.
CreateAgreement(a, r) ==
    /\ Open(r)
    /\ AgreementsOf(a) # {} /\ r \notin AgreementsOf(a)
    /\ agreement' = [agreement EXCEPT ![a] = [@ EXCEPT ![r] = Null]]
    /\ UNCHANGED <<profile, resort, removed, papers, history, call>>

\* Mutation: a failed upload is taken for one that succeeded.
PutOrFailed(f) == file

\* UploadService.uploadFile
Put(f) == [file EXCEPT ![f] = "stored"]

\* Under a name with a new UUID, that no client has used.
StoreFile(f) == file[f] = "none" /\ f \notin loose /\ file' = Put(f)

\* updateProfile looks at one agreement, in no order, and makes a profile if
\* that one names none ...
UpdateAgentProfile(c, a, r, p) ==
    /\ r \in AgreementsOf(a)
    /\ agreement[a][r] = Null
    /\ NewProfile(p, a)
    /\ astray' = IF Making(a) THEN astray \cup {a} ELSE astray
    /\ Begin(c, [NoCall EXCEPT !.at = "assign", !.who = a, !.resort = r, !.holder = p])
    /\ UNCHANGED <<papers, resort, removed, agreement, swapped, cut, doubled, loose>>

\* uploadDocument of an agent who names none, in any agreement, too ...
UploadWithoutProfile(c, a, p) ==
    /\ ProfilesOf(a) = {}
    /\ NewProfile(p, a)
    /\ astray' = IF Making(a) \/ AgreementsOf(a) = {} THEN astray \cup {a} ELSE astray
    /\ Begin(c, [NoCall EXCEPT !.at = "link", !.who = a, !.holder = p])
    /\ UNCHANGED <<papers, resort, removed, agreement, swapped, cut, doubled, loose>>

\* ... and puts it into that agreement, whatever it names by now,
AssignProfile(c) ==
    LET r == call[c] IN
    /\ At(c, "assign")
    /\ agreement' = [agreement EXCEPT ![r.who] = [@ EXCEPT ![r.resort] = r.holder]]
    /\ Return(c)
    /\ UNCHANGED <<profile, resort, removed, papers, history>>

\* Mutation: the new profile is put into no agreement.
LinkNothing(a, p) == agreement[a]

\* or into those that name none.
Linked(a, p) ==
    [r \in Opt(Resorts) |-> IF agreement[a][r] = Null THEN p ELSE agreement[a][r]]

LinkProfile(c, f) ==
    LET r == call[c] IN
    /\ At(c, "link")
    /\ agreement' = [agreement EXCEPT ![r.who] = Linked(r.who, r.holder)]
    /\ StoreFile(f)
    /\ Go(c, [NoCall EXCEPT !.at = "find", !.holder = r.holder, !.file = f])
    /\ UNCHANGED <<profile, resort, removed, doc, history>>

\* The other uploads: to the profile of a resort, one of an agent's, or to
\* an experience.
Target(h) == h \in Experiences \/ Named(h)

\* An image is one more; a document may replace the one there is.
AfterStore(h) == IF h \in Experiences THEN "insert" ELSE "find"

Upload(c, h, f) ==
    /\ Target(h)
    /\ StoreFile(f)
    /\ Begin(c, [NoCall EXCEPT !.at = AfterStore(h), !.holder = h, !.file = f])
    /\ UNCHANGED <<parties, doc, history>>

\* presignImageUpload: the row first, the file from the client, if ever.
PresignImage(e, d, f) ==
    /\ doc[d] = None
    /\ StoreFile(f)
    /\ doc' = [doc EXCEPT ![d] =
         [holder |-> e, file |-> f, read |-> Null, status |-> "uploaded"]]
    /\ UNCHANGED <<parties, history, call>>

\* generateDocumentPresignedUrl
PresignFile(f) ==
    /\ StoreFile(f)
    /\ UNCHANGED <<parties, doc, history, call>>

\* A file that is there, and that no row and no request names.
Unnamed(f) ==
    /\ file[f] = "stored"
    /\ \A d \in Docs : Exists(d) => doc[d].file # f
    /\ \A c \in Calls : call[c].file # f

Took(f) == IF Unnamed(f) THEN loose ELSE loose \cup {f}

\* UploadController.uploadFile: under the client's name, whatever it held.
DirectUpload(f) ==
    /\ file' = Put(f)
    /\ UNCHANGED <<parties, doc, history, call>>

\* UploadController.deleteFile: any file, whoever names it.
DeleteByName(f) ==
    /\ file[f] = "stored"
    /\ file' = [file EXCEPT ![f] = "deleted"]
    /\ loose' = Took(f)
    /\ Cardinality(cut) + Cardinality(loose') <= MaxLost
    /\ UNCHANGED <<parties, doc, swapped, cut, doubled, astray, call>>

\* ResortsController.createDocument: the client names any file, by its URL.
RegisterDocument(c, r, f) ==
    /\ Open(r) /\ resort[r] # Null
    /\ loose' = Took(f)
    /\ Cardinality(cut) + Cardinality(loose') <= MaxLost
    /\ Begin(c, [NoCall EXCEPT !.at = "find", !.holder = resort[r], !.file = f])
    /\ UNCHANGED <<papers, parties, swapped, cut, doubled, astray>>

\* createDocument looks for a document of the type ...
FindDocument(c) ==
    LET r == call[c] IN
    /\ At(c, "find")
    /\ Go(c, [r EXCEPT !.at = IF DocsOf(r.holder) = {} THEN "insert" ELSE "replace"])
    /\ UNCHANGED <<papers, parties, history>>

\* Mutation: the name of the new file is lost.
ReplacedByNothing(row, f) == [row EXCEPT !.file = Null, !.status = "uploaded"]

\* Mutation: a replaced document keeps its review.
ReplacedAsIs(row, f) == [row EXCEPT !.file = f]

Replaced(row, f) == [row EXCEPT !.file = f, !.status = "uploaded", !.read = Null]

\* ... and puts the new file into all there are: the old ones stay stored.
ReplaceDocument(c) ==
    LET r == call[c] IN
    /\ At(c, "replace")
    /\ doc' = [d \in Docs |->
         IF d \in DocsOf(r.holder) THEN Replaced(doc[d], r.file) ELSE doc[d]]
    /\ swapped' = swapped \cup
         {d \in DocsOf(r.holder) : \E k \in Calls : At(k, "review") /\ call[k].doc = d}
    /\ Return(c)
    /\ UNCHANGED <<parties, file, cut, doubled, astray, loose>>

\* ... or inserts the first.
InsertDocument(c, d) ==
    LET r == call[c] IN
    /\ At(c, "insert")
    /\ doc[d] = None
    /\ doc' = [doc EXCEPT ![d] =
         [holder |-> r.holder, file |-> r.file, read |-> Null, status |-> "uploaded"]]
    /\ doubled' = IF r.holder \in Profiles /\ DocsOf(r.holder) # {}
                  THEN doubled \cup {r.holder} ELSE doubled
    /\ Return(c)
    /\ UNCHANGED <<parties, file, swapped, cut, astray, loose>>

-----------------------------------------------------------------------------
(* Review *)

\* approveDocument and rejectDocument, of AdminService for resorts and of
\* AgentsService for agents: read the document ...
Review(c, d, verdict) ==
    /\ Exists(d) /\ doc[d].holder \in Profiles
    /\ Begin(c, [NoCall EXCEPT !.at = "review", !.doc = d, !.file = doc[d].file,
                               !.verdict = verdict])
    /\ UNCHANGED <<papers, parties, history>>

Judged(row, verdict, f) ==
    IF verdict = "approved" THEN [row EXCEPT !.status = "approved", !.read = f]
    ELSE [row EXCEPT !.status = "uploaded", !.read = Null]

\* ... then write the verdict, by id.
Reviewed(c) ==
    LET r == call[c] IN
    /\ At(c, "review")
    /\ doc' = IF Exists(r.doc)
              THEN [doc EXCEPT ![r.doc] = Judged(@, r.verdict, r.file)]
              ELSE doc
    /\ Return(c)
    /\ UNCHANGED <<parties, file, history>>

-----------------------------------------------------------------------------
(* Deleting *)

\* deleteDocument, deleteExperienceImage: read the row ...
DeleteDocument(c, d) ==
    /\ Exists(d)
    /\ Begin(c, [NoCall EXCEPT !.at = "blob", !.doc = d, !.file = doc[d].file])
    /\ UNCHANGED <<papers, parties, history>>

\* ... delete the file, or go on without ...
DeleteFile(c, deleted) ==
    LET r == call[c] IN
    /\ At(c, "blob")
    /\ file' = IF deleted /\ file[r.file] = "stored"
               THEN [file EXCEPT ![r.file] = "deleted"] ELSE file
    /\ Go(c, [r EXCEPT !.at = "row"])
    /\ UNCHANGED <<parties, doc, history>>

\* ... and delete the row.
DeleteRow(c) ==
    /\ At(c, "row")
    /\ doc' = [doc EXCEPT ![call[c].doc] = Gone]
    /\ cut' = cut \ {call[c].doc} /\ swapped' = swapped \ {call[c].doc}
    /\ Return(c)
    /\ UNCHANGED <<parties, file, doubled, astray, loose>>

\* A request ends early: an error, or a process that is stopped.
Crash(c) ==
    /\ ~At(c, "idle")
    /\ cut' = IF At(c, "row") THEN cut \cup {call[c].doc} ELSE cut
    /\ Cardinality(cut') + Cardinality(loose) <= MaxLost
    /\ astray' = IF At(c, "agent") THEN astray \cup {call[c].who} ELSE astray
    /\ Return(c)
    /\ UNCHANGED <<papers, parties, swapped, doubled, loose>>

Step(c) ==
    \/ \E p \in Profiles : \/ \E r \in Resorts : CreateResort(c, r, p)
                          \/ \E a \in Agents : \E r \in Opt(Resorts) : CreateAgent(c, a, r, p)
    \/ ResortCreated(c) \/ AgentCreated(c)
    \/ \E a \in Agents :
       \E p \in Profiles : \/ UploadWithoutProfile(c, a, p)
                          \/ \E r \in Opt(Resorts) : UpdateAgentProfile(c, a, r, p)
    \/ AssignProfile(c)
    \/ \E f \in Files : \/ LinkProfile(c, f) \/ \E h \in Holders : Upload(c, h, f)
                       \/ \E r \in Resorts : RegisterDocument(c, r, f)
    \/ \E d \in Docs : InsertDocument(c, d) \/ DeleteDocument(c, d)
    \/ \E d \in Docs : \E v \in {"approved", "rejected"} : Review(c, d, v)
    \/ FindDocument(c) \/ ReplaceDocument(c) \/ Reviewed(c)
    \/ \E deleted \in BOOLEAN : DeleteFile(c, deleted)
    \/ DeleteRow(c) \/ Crash(c)

Next ==
    \/ \E c \in Calls : Step(c)
    \/ \E a \in Agents : \E r \in Resorts : CreateAgreement(a, r)
    \/ \E e \in Experiences : \E d \in Docs : \E f \in Files : PresignImage(e, d, f)
    \/ \E f \in Files : PresignFile(f) \/ DirectUpload(f) \/ DeleteByName(f)
    \/ \E r \in Resorts : RemoveResort(r)

Spec == Init /\ [][Next]_vars

-----------------------------------------------------------------------------
(* Properties *)

\* Rows, files and requests are of their kinds.
TypeOK ==
    /\ profile \in [Profiles -> Resorts \cup Agents \cup {None}]
    /\ resort \in [Resorts -> Opt(Profiles) \cup {None}] /\ removed \subseteq Resorts
    /\ agreement \in [Agents -> [Opt(Resorts) -> Opt(Profiles) \cup {None}]]
    /\ doc \in [Docs -> Doc \cup {None, Gone}]
    /\ file \in [Files -> {"none", "stored", "deleted"}]
    /\ swapped \subseteq Docs /\ cut \subseteq Docs
    /\ doubled \subseteq Profiles /\ astray \subseteq Agents /\ loose \subseteq Files
    /\ call \in [Calls -> Call]

\* Every document hangs on a profile that a resort or an agreement names, so
\* that it can be reached from there, unless two requests made a profile for
\* the same agent at once, the agent has no agreement, or the resort was
\* removed (updateProfile, uploadDocument, remove).
DocumentsReachable ==
    \A d \in Docs :
       Exists(d) /\ doc[d].holder \in Profiles =>
          \/ Named(doc[d].holder)
          \/ profile[doc[d].holder] \in astray \cup removed

\* The file of a row is stored, or was promised by a client, unless the row is
\* being deleted, its deletion stopped half-way, two documents of the profile
\* shared a file, or a client has deleted the file by its name or named one
\* that was not there or another row's (deleteDocument, createDocument, and
\* UploadController, which ask nobody).
RowsHaveFiles ==
    \A d \in Docs :
       Exists(d) =>
          \/ file[doc[d].file] = "stored"
          \/ doc[d].file \in loose
          \/ d \in cut \/ doc[d].holder \in doubled
          \/ \E c \in Calls : At(c, "row") /\ call[c].doc = d

\* A document stays approved only with the file that its reviewer had read,
\* unless it was replaced while the verdict was being written.  The file is
\* told by its name: what a direct upload puts there is another matter.
ApprovedAsRead ==
    \A d \in Docs :
       Exists(d) /\ doc[d].status = "approved" =>
          doc[d].read = doc[d].file \/ d \in swapped

=============================================================================
