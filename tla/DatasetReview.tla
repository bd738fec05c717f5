----------------------------- MODULE DatasetReview -----------------------------
(* The human review that makes the evaluation dataset fit to release a Policy:
   the append-only, hash-chained log of verdicts of one dataset, the certificate
   drawn from it, the manifest that points to the certificate, and the loader
   that checks all of it (dataset_review.py, evaluation.py load_dataset, and the
   commands of review_text2sql_dataset.py and build_text2sql_dataset.py).

   A command is a process of its own, and several people may review at once.  A
   hash is the thing it is of, the case files of a dataset are one of Versions,
   and the review key is the right one. *)
EXTENDS Integers, Sequences, FiniteSets

CONSTANTS ReviewCases,   \* the cases of the dataset
          Versions,      \* what they may say
          NoVersion,
          Reviewers,     \* the review commands that may run at once
          MaxEvents, MaxBuilds   \* bounds: verdicts recorded, datasets generated

VARIABLES dataset,      \* the case files
          manifest,     \* what it says they are, and of their review
          certificate,  \* the file
          bound,        \* the dataset the review store is of, NoVersion before it is
          log,          \* the verdicts on the cases of a store, in order
          reviews,      \* of each command: the cases it has still to give its verdict on
          draft,        \* of the finalize command under way
          builds

reviewVars == <<dataset, manifest, certificate, bound, log, reviews, draft, builds>>

NoCertificate == [kind |-> "none"]
NoDraft == [stage |-> "none"]
NoReview == [store |-> NoVersion, verdict |-> "approve", todo |-> {}, head |-> -1]
Pending(files) ==
  [dataset |-> files, eligible |-> FALSE, reviewed |-> 0, certificate |-> NoCertificate]

--------------------------------------------------------------------------------
EventsOf(store) == {i \in DOMAIN log : log[i].store = store}
LastOf(S) == IF S = {} THEN 0 ELSE CHOOSE i \in S : \A j \in S : j <= i
ChainHead(store) == LastOf(EventsOf(store))

\* verify_chain: every event names the one before it.
Chained(store) ==
  \A i \in EventsOf(store) : log[i].previous = LastOf({j \in EventsOf(store) : j < i})

\* The last verdict on a case, 0 before there is one.
Latest(store, c) == LastOf({i \in EventsOf(store) : log[i].case = c})
Approved(store, c) == LET i == Latest(store, c) IN i # 0 /\ log[i].verdict = "approve"
ReleaseReady(store) == \A c \in ReviewCases : Approved(store, c)

\* Each attestation is made of the latest event of its case, and says "approve".
Attestations(store) == [c \in ReviewCases |-> Latest(store, c)]

\* Mutant of VerifyReviewCertificate: an attestation goes by its verdict alone.
VerifyReviewCertificateByVerdict(c, files) ==
  c.kind = "dataset-human-review" /\ c.cases = files /\ DOMAIN c.attested = ReviewCases

\* The checklist of an event that rejects has a failed check.
VerifyReviewCertificate(c, files) ==
  /\ c.kind = "dataset-human-review" /\ c.cases = files
  /\ DOMAIN c.attested = ReviewCases
  /\ \A case \in ReviewCases : log[c.attested[case]].verdict = "approve"

LoadDataset ==
  /\ manifest.dataset = dataset
  /\ manifest.eligible =>
       /\ manifest.reviewed = Cardinality(ReviewCases)
       /\ certificate = manifest.certificate
       /\ VerifyReviewCertificate(certificate, dataset)

\* The evidence the gates go by.
Verified == LoadDataset /\ manifest.eligible

--------------------------------------------------------------------------------
ReviewInit ==
  /\ dataset \in Versions
  /\ manifest = Pending(dataset) /\ certificate = NoCertificate
  /\ bound = NoVersion /\ log = <<>> /\ builds = 0
  /\ reviews = [p \in Reviewers |-> NoReview] /\ draft = NoDraft

\* Every command loads the dataset and opens the store of this dataset.
Opens == LoadDataset /\ bound = dataset /\ Chained(bound)

InitStore ==
  /\ LoadDataset /\ bound # dataset
  /\ bound' = dataset
  /\ UNCHANGED <<dataset, manifest, certificate, log, reviews, draft, builds>>

StartReview(p) ==
  /\ reviews[p] = NoReview /\ Opens
  /\ \E c \in ReviewCases, verdict \in {"approve", "reject"} :
       reviews' = [reviews EXCEPT ![p] = [store |-> bound, verdict |-> verdict,
                                          todo |-> {c}, head |-> -1]]
  /\ UNCHANGED <<dataset, manifest, certificate, bound, log, draft, builds>>

\* One person attests what is pending or rejected, one event for each such case.
AttestAllApproved(p) ==
  /\ reviews[p] = NoReview /\ Opens /\ ~ReleaseReady(bound)
  /\ reviews' = [reviews EXCEPT ![p] =
       [store |-> bound, verdict |-> "approve", head |-> -1,
        todo |-> {c \in ReviewCases : ~Approved(bound, c)}]]
  /\ UNCHANGED <<dataset, manifest, certificate, bound, log, draft, builds>>

\* The chain is read outside of the transaction that appends to it.
ReadHead(p) ==
  /\ reviews[p].todo # {} /\ reviews[p].head = -1
  /\ LET store == reviews[p].store
     IN reviews' = IF Chained(store) THEN [reviews EXCEPT ![p].head = ChainHead(store)]
                   ELSE [reviews EXCEPT ![p] = NoReview]
  /\ UNCHANGED <<dataset, manifest, certificate, bound, log, draft, builds>>

RecordReview(p) ==
  /\ reviews[p].head # -1 /\ Len(log) < MaxEvents
  /\ \E c \in reviews[p].todo :
       /\ log' = Append(log, [case |-> c, verdict |-> reviews[p].verdict,
                              store |-> reviews[p].store, previous |-> reviews[p].head])
       /\ LET left == reviews[p].todo \ {c}
          IN reviews' = [reviews EXCEPT ![p] =
               IF left = {} THEN NoReview ELSE [reviews[p] EXCEPT !.todo = left, !.head = -1]]
  /\ UNCHANGED <<dataset, manifest, certificate, bound, draft, builds>>

\* finalize reads the state of the review, reads the verdicts again for the
\* certificate, verifies and writes it, and then enters it in the manifest.
CheckReady ==
  /\ draft = NoDraft /\ Opens /\ ReleaseReady(bound)
  /\ draft' = [stage |-> "ready", store |-> bound, head |-> ChainHead(bound)]
  /\ UNCHANGED <<dataset, manifest, certificate, bound, log, reviews, builds>>

BuildCertificate ==
  /\ draft.stage = "ready"
  /\ LET new == [kind |-> "dataset-human-review", cases |-> draft.store,
                 attested |-> Attestations(draft.store), head |-> draft.head]
     IN IF VerifyReviewCertificate(new, draft.store)
        THEN certificate' = new /\ draft' = [draft EXCEPT !.stage = "written"]
        ELSE draft' = NoDraft /\ UNCHANGED certificate
  /\ UNCHANGED <<dataset, manifest, bound, log, reviews, builds>>

EnterCertificate ==
  /\ draft.stage = "written" /\ draft' = NoDraft
  /\ manifest' = IF manifest.dataset = draft.store
                 THEN [manifest EXCEPT !.eligible = TRUE, !.certificate = certificate,
                                       !.reviewed = Cardinality(ReviewCases)]
                 ELSE manifest
  /\ UNCHANGED <<dataset, certificate, bound, log, reviews, builds>>

\* A command dies between two of its steps.
CommandDies ==
  /\ \/ draft # NoDraft /\ draft' = NoDraft /\ UNCHANGED reviews
     \/ /\ UNCHANGED draft
        /\ \E p \in Reviewers : /\ reviews[p] # NoReview
                                /\ reviews' = [reviews EXCEPT ![p] = NoReview]
  /\ UNCHANGED <<dataset, manifest, certificate, bound, log, builds>>

\* The dataset is generated again: the case files, and then their manifest.
WriteCases ==
  /\ builds < MaxBuilds /\ builds' = builds + 1
  /\ dataset' \in Versions
  /\ UNCHANGED <<manifest, certificate, bound, log, reviews, draft>>

WriteManifest ==
  /\ builds > 0 /\ manifest # Pending(dataset)
  /\ manifest' = Pending(dataset)
  /\ UNCHANGED <<dataset, certificate, bound, log, reviews, draft, builds>>

ReviewNext ==
  \/ InitStore \/ CheckReady \/ BuildCertificate \/ EnterCertificate
  \/ CommandDies \/ WriteCases \/ WriteManifest
  \/ \E p \in Reviewers : \/ StartReview(p) \/ AttestAllApproved(p)
                          \/ ReadHead(p) \/ RecordReview(p)

ReviewSpec == ReviewInit /\ [][ReviewNext]_reviewVars

--------------------------------------------------------------------------------
(* A dataset loads as reviewed only on the word of people: each case, as it reads
   now, is attested by an event that approves it, no later verdict on it had
   been recorded when the certificate was begun, and the log was then a chain -
   also when verdicts come in while finalize runs, when it dies between its two
   files, and when the dataset is generated again. *)
ReviewedIsApproved ==
  Verified =>
    \A c \in ReviewCases :
      LET i == certificate.attested[c]
          before == {j \in EventsOf(dataset) : j <= certificate.head}
      IN /\ i # 0 /\ log[i].case = c /\ log[i].store = dataset
         /\ log[i].verdict = "approve"
         /\ \A j \in before : log[j].case = c => j <= i
         /\ \A j \in before : log[j].previous = LastOf({k \in before : k < j})
================================================================================
