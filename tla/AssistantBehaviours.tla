------------------------ MODULE AssistantBehaviours ------------------------
(***************************************************************************)
(* Assistants and their behaviour, the drafts and the published revision,  *)
(* as administrators edit them from several browsers. A page sends what it *)
(* shows back as the concurrency token of what it asks for; a request may  *)
(* be lost, its answer may be lost, and a request a page no longer waits   *)
(* for may still be handled, after others.                                 *)
(*                                                                         *)
(* All assistants ask for one slug, so at most one exists at a time. A     *)
(* transaction that locks the row it decides on is one step.               *)
(***************************************************************************)
EXTENDS Naturals, Sequences, FiniteSets

CONSTANTS
    Assistants,   \* identities uuid4 hands out
    Editors,      \* pages of the admin application
    Contents,     \* instructions and texts of a draft
    Default,      \* the texts an assistant is created with
    FirstName,    \* the name an assistant is created with
    Updates,      \* what updates name: [name] or [public]
    None,
    Gone,         \* a deleted assistant
    MaxRequests,  \* bound on the requests under way
    MaxVersion,   \* bound on a behaviour's version
    MaxClock      \* bound on the stamps of an assistant row

Ids == 1 .. MaxRequests
Names == {FirstName} \union {u.name : u \in {u \in Updates : "name" \in DOMAIN u}}
Rows == [name : Names, public : BOOLEAN, stamp : Nat]    \* stamp is updated_at
Behaviours == [drafts : Seq(Contents), published : Nat, version : Nat]
States == [draft : Nat, content : Contents, published : Nat, token : Nat]

ASSUME BehaviourAssumption ==
    /\ Default \in Contents
    /\ {MaxRequests, MaxVersion, MaxClock} \subseteq Nat \ {0}
    /\ IsFiniteSet(Editors)
    /\ \A u \in Updates :
          DOMAIN u \subseteq {"name", "public"} /\ ("public" \in DOMAIN u => u.public \in BOOLEAN)
    /\ None # Gone
    /\ {None, Gone} \intersect Rows = {}
    /\ None \notin Ids \union States /\ None \notin Behaviours

VARIABLES
    rows,        \* the assistants rows
    behaviours,  \* the behaviour rows with their revisions
    owners,      \* assistants with a row in knowledge_sources, documents or chunks
    requests,    \* requests under way
    pages        \* what each editor's page shows and waits for

behaviourVars == <<rows, behaviours, owners, requests, pages>>

Live(a) == rows[a] \notin {None, Gone}
Closed == [kind |-> "closed"]
UnderWay == Cardinality(requests) + Cardinality({e \in Editors : pages[e] # Closed /\ pages[e].refresh # None})

BehavioursInit ==
    /\ rows = [a \in Assistants |-> None]
    /\ behaviours = [a \in Assistants |-> None]
    /\ owners = {}
    /\ requests = {}
    /\ pages = [e \in Editors |-> Closed]

-----------------------------------------------------------------------------
(* Assistants are created and deleted *)

\* The row, its first revision and its published state in one transaction; the
\* unique index on the slug refuses a second assistant.
Create(a) ==
    /\ rows[a] = None
    /\ \A b \in Assistants : ~Live(b)
    /\ rows' = [rows EXCEPT ![a] = [name |-> FirstName, public |-> FALSE, stamp |-> 0]]
    /\ behaviours' = [behaviours EXCEPT ![a] =
                         [drafts |-> <<Default>>, published |-> 1, version |-> 1]]
    /\ UNCHANGED <<owners, requests, pages>>

\* FOR UPDATE waits for the key share lock of an insert under way; the check
\* then sees its row, and an insert that comes later finds no assistant.
Delete(a) ==
    /\ Live(a)
    /\ a \notin owners
    /\ rows' = [rows EXCEPT ![a] = Gone]
    /\ behaviours' = [behaviours EXCEPT ![a] = None]
    /\ UNCHANGED <<owners, requests, pages>>

AddSource(a) ==
    /\ Live(a)
    /\ owners' = owners \union {a}
    /\ UNCHANGED <<rows, behaviours, requests, pages>>

-----------------------------------------------------------------------------
(* The pages *)

\* What GET .../behaviour answers: the state row and the revisions it names,
\* which never change.
State(a) ==
    LET b == behaviours[a]
    IN [draft |-> Len(b.drafts), content |-> b.drafts[Len(b.drafts)],
        published |-> b.published, token |-> b.version]

Read(a, kind) == IF kind = "behaviour" THEN State(a) ELSE rows[a]

Open(e, a, kind) ==
    /\ pages[e] = Closed
    /\ Live(a)
    /\ pages' = [pages EXCEPT ![e] =
          [kind |-> kind, assistant |-> a, waits |-> None, refresh |-> None,
           shown |-> Read(a, kind)]]
    /\ UNCHANGED <<rows, behaviours, owners, requests>>

\* A save and a publication exclude each other on a page.
Send(e, request) ==
    /\ pages[e].waits = None
    /\ UnderWay < MaxRequests
    /\ LET id == CHOOSE n \in Ids : \A r \in requests : r.id # n
           sent == [id |-> id, assistant |-> pages[e].assistant,
                    shown |-> pages[e].shown, request |-> request, read |-> None]
       IN /\ requests' = requests \union {sent}
          /\ pages' = [pages EXCEPT ![e].waits = id]
    /\ UNCHANGED <<rows, behaviours, owners>>

\* The texts the page was edited to.
Save(e, content) ==
    /\ pages[e].kind = "behaviour"
    /\ Send(e, [op |-> "save", content |-> content])

\* The dialog is about the saved draft the page shows.
Publish(e) ==
    /\ pages[e].kind = "behaviour"
    /\ Send(e, [op |-> "publish"])

Update(e, fields) ==
    /\ pages[e].kind = "general"
    /\ Send(e, [op |-> "update", fields |-> fields])

\* The page stops waiting: its request or the answer may be lost, or late.
Failed(e) ==
    /\ pages[e] # Closed
    /\ pages[e].waits # None
    /\ pages' = [pages EXCEPT ![e].waits = None]
    /\ UNCHANGED <<rows, behaviours, owners, requests>>

\* The general page does not refresh: it is loaded again, and what it asked for
\* goes on.
Reload(e) ==
    /\ pages[e].kind = "general"
    /\ Live(pages[e].assistant)
    /\ pages' = [pages EXCEPT ![e].shown = rows[pages[e].assistant], ![e].waits = None]
    /\ UNCHANGED <<rows, behaviours, owners, requests>>

\* Refreshing excludes neither a save nor a publication, so the answer may be
\* older than what the page shows by then.
Refresh(e) ==
    /\ pages[e].kind = "behaviour"
    /\ pages[e].refresh = None
    /\ UnderWay < MaxRequests
    /\ Live(pages[e].assistant)
    /\ pages' = [pages EXCEPT ![e].refresh = State(pages[e].assistant)]
    /\ UNCHANGED <<rows, behaviours, owners, requests>>

Refreshed(e) ==
    /\ pages[e] # Closed
    /\ pages[e].refresh # None
    /\ pages' = [pages EXCEPT ![e].shown = pages[e].refresh, ![e].refresh = None]
    /\ UNCHANGED <<rows, behaviours, owners, requests>>

-----------------------------------------------------------------------------
(* The requests *)

\* The request ends. A page that still waits for it shows the answer, if it is
\* not an error.
End(r, answer) ==
    /\ requests' = requests \ {r}
    /\ pages' = [e \in Editors |->
          IF pages[e] # Closed /\ pages[e].waits = r.id
          THEN [pages[e] EXCEPT !.shown = IF answer = None THEN @ ELSE answer, !.waits = None]
          ELSE pages[e]]
    /\ UNCHANGED owners

\* 404, 409, or the request is lost on its way.
Refuse(r) == End(r, None) /\ UNCHANGED <<rows, behaviours>>

StateAfter(behaviour) ==
    [draft |-> Len(behaviour.drafts), content |-> behaviour.drafts[Len(behaviour.drafts)],
     published |-> behaviour.published, token |-> behaviour.version]

Store(r, behaviour) ==
    /\ behaviour.version <= MaxVersion
    /\ behaviours' = [behaviours EXCEPT ![r.assistant] = behaviour]
    /\ End(r, StateAfter(behaviour))
    /\ UNCHANGED rows

SameToken(r) == r.shown.token = behaviours[r.assistant].version

\* The same texts again are no new revision.
SaveDraft(r) ==
    /\ r.request.op = "save"
    /\ Live(r.assistant)
    /\ SameToken(r)
    /\ LET b == behaviours[r.assistant]
           new == [b EXCEPT !.drafts = Append(@, r.request.content), !.version = @ + 1]
       IN Store(r, IF r.request.content = b.drafts[Len(b.drafts)] THEN b ELSE new)

MayPublishAnyway(r) == TRUE    \* the draft may have moved on
MayPublish(r) ==
    /\ r.shown.token = behaviours[r.assistant].version
    /\ r.shown.draft = Len(behaviours[r.assistant].drafts)

PublishedUnversioned(b, draft) == [b EXCEPT !.published = draft]
Published(b, draft) == [b EXCEPT !.published = draft, !.version = @ + 1]

\* A draft that is published already is published, whatever the token.
PublishDraft(r) ==
    /\ r.request.op = "publish"
    /\ Live(r.assistant)
    /\ LET b == behaviours[r.assistant]
           new == Published(b, r.shown.draft)
       IN \/ /\ r.shown.draft = Len(b.drafts)
             /\ r.shown.draft = b.published
             /\ Store(r, b)
          \/ /\ ~(r.shown.draft = Len(b.drafts) /\ r.shown.draft = b.published)
             /\ MayPublish(r)
             /\ Store(r, new)

\* PATCH reads the row without a lock ...
ReadRow(r) ==
    /\ r.request.op = "update"
    /\ r.read = None
    /\ Live(r.assistant)
    /\ requests' = (requests \ {r}) \union {[r EXCEPT !.read = rows[r.assistant]]}
    /\ UNCHANGED <<rows, behaviours, owners, pages>>

\* ... and the clock of its process, which other processes may be ahead of ...
Stamp(clock, read) == clock
NextStamp(clock, read) == IF clock > read.stamp THEN clock ELSE read.stamp + 1

\* ... and writes the row it has computed if the row's stamp still is the page's.
Field(r, f) == IF f \in DOMAIN r.request.fields THEN r.request.fields[f] ELSE r.read[f]
WriteRow(r, clock) ==
    /\ r.read # None
    /\ Live(r.assistant)
    /\ rows[r.assistant].stamp = r.shown.stamp
    /\ NextStamp(clock, r.read) <= MaxClock
    /\ LET new == [name |-> Field(r, "name"), public |-> Field(r, "public"),
                   stamp |-> NextStamp(clock, r.read)]
       IN rows' = [rows EXCEPT ![r.assistant] = new] /\ End(r, new)
    /\ UNCHANGED behaviours

-----------------------------------------------------------------------------
Edit(e) ==
    \/ \E a \in Assistants, kind \in {"behaviour", "general"} : Open(e, a, kind)
    \/ \E content \in Contents : Save(e, content)
    \/ Publish(e)
    \/ \E fields \in Updates : Update(e, fields)
    \/ Failed(e) \/ Reload(e) \/ Refresh(e) \/ Refreshed(e)

Handle(r) ==
    \/ SaveDraft(r) \/ PublishDraft(r) \/ ReadRow(r) \/ Refuse(r)
    \/ \E clock \in 0 .. MaxClock : WriteRow(r, clock)

BehavioursNext ==
    \/ \E a \in Assistants :
          Create(a) \/ Delete(a) \/ AddSource(a)
    \/ \E e \in Editors : Edit(e)
    \/ \E r \in requests : Handle(r)

BehavioursSpec == BehavioursInit /\ [][BehavioursNext]_behaviourVars

-----------------------------------------------------------------------------
(* Properties *)

BehavioursTypeOK ==
    /\ \A a \in Assistants : Live(a) <=> behaviours[a] # None
    /\ \A a \in Assistants : Live(a) => behaviours[a].published \in 1 .. Len(behaviours[a].drafts)
    /\ Cardinality({r.id : r \in requests}) = Cardinality(requests)
    /\ DOMAIN pages = Editors
    /\ \A a \in owners : Live(a)

Token(kind, shown) == IF kind = "behaviour" THEN shown.token ELSE shown.stamp

\* A token stands for one state only: whatever page or request still shows the
\* token an assistant has now shows all of it as it is now, however many saves,
\* publications and updates came and went in between.
TokensAgree ==
    /\ BehavioursTypeOK
    /\ \A e \in {e \in Editors : pages[e] # Closed /\ Live(pages[e].assistant)} :
          LET page == pages[e]
              current == Read(page.assistant, page.kind)
          IN Token(page.kind, page.shown) = Token(page.kind, current) => page.shown = current

\* Nobody overwrites what they have not seen. A draft is replaced, and an
\* assistant's row is, only by a request of a page that showed the very state
\* it replaces, and a row keeps the fields the request does not name: tokens
\* are never met again, although clocks of several processes produce them.
NothingOverwrittenUnseen ==
    [][\A a \in Assistants : Live(a) /\ Live(a)' =>
          /\ \/ behaviours'[a].drafts = behaviours[a].drafts
             \/ \E r \in requests : r \notin requests' /\ r.assistant = a /\ r.shown = State(a)
          /\ \/ rows'[a] = rows[a]
             \/ \E r \in requests :
                    /\ r \notin requests' /\ r.assistant = a /\ r.shown = rows[a]
                    /\ \A f \in DOMAIN rows[a] \ {"stamp"} :
                          f \notin DOMAIN r.request.fields => rows'[a][f] = rows[a][f]
      ]_behaviourVars

\* What becomes public is the saved draft of that moment, and the page it was
\* published from was showing that draft's texts: a publication that is handled
\* late, or again, does not undo a later one.
PublishedAsReviewed ==
    [][\A a \in Assistants : Live(a) /\ Live(a)' =>
          \/ behaviours'[a].published = behaviours[a].published
          \/ \E r \in requests :
                /\ r \notin requests' /\ r.assistant = a /\ r.request.op = "publish"
                /\ behaviours'[a].published = Len(behaviours[a].drafts)
                /\ r.shown.content = behaviours[a].drafts[Len(behaviours[a].drafts)]
      ]_behaviourVars
=============================================================================
