------------------------------ MODULE Runbooks ------------------------------
(***************************************************************************)
(* One runbook of the knowledge base: its revisions, and its page in the wiki *)
(* it is published to.                                                        *)
(*                                                                            *)
(* VEYRS is the system of record and the wiki a mirror: a publication reads   *)
(* the article and the link, talks to the wiki, and commits the link at the   *)
(* end.  The wiki answers, refuses or falls silent after it acted, and people *)
(* edit and remove pages in it.                                               *)
(***************************************************************************)
EXTENDS Integers, Sequences

CONSTANTS
  Texts,      \* what an article may say (title and body)
  Clerks,     \* requests that may run at the same time
  MaxWork     \* bound: requests that begin, and what people do in the wiki

ASSUME RunbooksAssumption == Texts # {} /\ MaxWork \in Nat

VARIABLES
  article,    \* knowledge_articles: [text, version, tagged]
  revisions,  \* knowledge_revisions, by version
  link,       \* external_links: [exists, page, digest]
  wiki,       \* external: the pages created for the article
  clerk,      \* the requests in progress, with what they read
  worked,
  blurred     \* history: publications overlapped, or the wiki fell silent

runbookVars == <<article, revisions, link, wiki, clerk, worked, blurred>>

Away == [op |-> "away", saw |-> <<>>, link |-> <<>>, to |-> <<>>, page |-> 0, number |-> 0]

\* article_payload: what is published, with the version in its footer.
Payload(a) == <<a.text, a.version, a.tagged>>

NoPage == 0
NoLink == [exists |-> FALSE, page |-> NoPage, digest |-> <<>>]

RunbooksInit ==
  /\ \E text \in Texts :
       /\ article = [text |-> text, version |-> 1, tagged |-> FALSE]
       /\ revisions = <<text>>
  /\ link = NoLink /\ wiki = <<>> /\ clerk = [c \in Clerks |-> Away] /\ worked = 0 /\ blurred = FALSE

Work == worked < MaxWork /\ worked' = worked + 1

Serve(c, op) ==
  /\ Work /\ clerk[c].op = "away"
  /\ clerk' = [clerk EXCEPT ![c] = [Away EXCEPT !.op = op.op, !.saw = article, !.link = link, !.to = op.to]]
  /\ UNCHANGED <<article, revisions, link, wiki>>

Served(c) == clerk' = [clerk EXCEPT ![c] = Away] /\ UNCHANGED worked

----------------------------------------------------------------------------
(* Editing.                                                                 *)

EditBegins(c) ==
  \E text \in Texts, tagged \in BOOLEAN :
    Serve(c, [op |-> "edit", to |-> <<text, tagged>>]) /\ UNCHANGED blurred

Revised(c) == clerk[c].to[1] # clerk[c].saw.text

\* A change of the text is a new revision, of the next number; nothing else is.
Version(c) == clerk[c].saw.version + (IF Revised(c) THEN 1 ELSE 0)

\* Two revisions of one number break the unique index: the later edit is refused.
EditEnds(c) ==
  LET saw == clerk[c].saw
      tagged == clerk[c].to[2]
  IN
  /\ clerk[c].op = "edit" /\ Served(c)
  /\ IF Revised(c) /\ Version(c) \in DOMAIN revisions THEN UNCHANGED <<article, revisions>>
     ELSE /\ revisions' = IF Revised(c) THEN Append(revisions, clerk[c].to[1]) ELSE revisions
          /\ article' = [text |-> IF Revised(c) THEN clerk[c].to[1] ELSE article.text,
                         version |-> IF Version(c) # saw.version THEN Version(c) ELSE article.version,
                         tagged |-> IF tagged # saw.tagged THEN tagged ELSE article.tagged]
  /\ UNCHANGED <<link, wiki, blurred>>

----------------------------------------------------------------------------
(* Publishing.                                                              *)

Publishing(c) == clerk[c].op \in {"publish", "fetched", "sent"}

\* An article that is published as it stands is not published again.
PublishBegins(c) ==
  /\ ~(link.exists /\ link.digest = Payload(article))
  /\ Serve(c, [op |-> "publish", to |-> Payload(article)])
  /\ blurred' = (blurred \/ \E d \in Clerks : Publishing(d))

Step(c, op) == clerk' = [clerk EXCEPT ![c].op = op] /\ UNCHANGED worked

\* The wiki refuses, or the process stops: the link stays as it was.
PublishFails(c) ==
  /\ Publishing(c) /\ Served(c)
  /\ blurred' = (blurred \/ clerk[c].op = "sent")
  /\ UNCHANGED <<article, revisions, link, wiki>>

Create(c, answered) ==
  /\ clerk[c].op = "publish" /\ ~clerk[c].link.exists
  /\ wiki' = Append(wiki, [text |-> clerk[c].to, number |-> 1, theirs |-> FALSE, gone |-> FALSE])
  /\ IF answered
     THEN clerk' = [clerk EXCEPT ![c].op = "sent", ![c].page = Len(wiki) + 1] /\ UNCHANGED <<worked, blurred>>
     ELSE Served(c) /\ blurred' = TRUE
  /\ UNCHANGED <<article, revisions, link>>

\* The number is the wiki's: it is read just before the page is written.
Fetch(c) ==
  LET p == clerk[c].link.page IN
  /\ clerk[c].op = "publish" /\ clerk[c].link.exists /\ ~wiki[p].gone
  /\ clerk' = [clerk EXCEPT ![c].op = "fetched", ![c].page = p, ![c].number = wiki[p].number + 1]
  /\ UNCHANGED <<article, revisions, link, wiki, worked, blurred>>

Update(c, answered) ==
  LET p == clerk[c].page IN
  /\ clerk[c].op = "fetched" /\ ~wiki[p].gone /\ clerk[c].number = wiki[p].number + 1
  /\ wiki' = [wiki EXCEPT ![p].text = clerk[c].to, ![p].number = @ + 1, ![p].theirs = FALSE]
  /\ IF answered
     THEN Step(c, "sent") /\ UNCHANGED blurred
     ELSE Served(c) /\ blurred' = TRUE
  /\ UNCHANGED <<article, revisions, link>>

\* The link is committed with the digest of what this request read; a second link
\* of one article breaks the unique index, and its page stays behind.
PublishEnds(c) ==
  /\ clerk[c].op = "sent" /\ Served(c)
  /\ link' = IF ~clerk[c].link.exists /\ link.exists THEN link
             ELSE [exists |-> TRUE, page |-> clerk[c].page, digest |-> clerk[c].to]
  /\ UNCHANGED <<article, revisions, wiki, blurred>>

\* Somebody edits or removes a page in the wiki.
EditedThere ==
  \E p \in DOMAIN wiki :
    /\ Work /\ ~wiki[p].gone
    /\ wiki' = [wiki EXCEPT ![p].number = @ + 1, ![p].theirs = TRUE]
    /\ UNCHANGED <<article, revisions, link, clerk, blurred>>

RemovedThere ==
  \E p \in DOMAIN wiki :
    /\ Work /\ ~wiki[p].gone
    /\ wiki' = [wiki EXCEPT ![p].gone = TRUE]
    /\ UNCHANGED <<article, revisions, link, clerk, blurred>>

RunbooksNext ==
  \/ \E c \in Clerks :
       \/ EditBegins(c) \/ EditEnds(c) \/ PublishBegins(c) \/ PublishFails(c)
       \/ \E answered \in BOOLEAN : Create(c, answered) \/ Update(c, answered)
       \/ Fetch(c) \/ PublishEnds(c)
  \/ EditedThere \/ RemovedThere

RunbooksSpec == RunbooksInit /\ [][RunbooksNext]_runbookVars

----------------------------------------------------------------------------
RunbooksTypeOK ==
  /\ article.text \in Texts /\ article.version \in Nat
  /\ revisions \in Seq(Texts) /\ link.page \in 0 .. Len(wiki) /\ worked \in 0 .. MaxWork

\* The revisions are numbered without a gap, and the last one is what the article
\* says, however edits overlap (threatintel.update_article).
RevisionsAreWhole == article.version = Len(revisions) /\ article.text = revisions[article.version]

\* While nothing is left to publish and nothing is on its way the page says what the
\* article says, unless it was edited there or removed, publications overlapped or
\* an answer was lost
\* (docs.publish_article: the digest is of what was sent, the page what arrived).
MirrorIsCurrent ==
  \/ ~link.exists \/ link.digest # Payload(article) \/ blurred \/ \E c \in Clerks : Publishing(c)
  \/ LET p == wiki[link.page] IN p.text = link.digest \/ p.theirs \/ p.gone

\* One article is one page, with the same exceptions.
PagesAreNotDoubled == Len(wiki) > 1 => blurred

RunbooksAreKept == RevisionsAreWhole /\ MirrorIsCurrent /\ PagesAreNotDoubled
=============================================================================
