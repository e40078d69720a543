----------------------------- MODULE AssetStore -----------------------------
(***************************************************************************)
(* apps/server/src/assets/store.ts under the handlers of routes/assets.ts, *)
(* and the creation of documents in routes/docs.ts, which registers each   *)
(* document as an asset.  A workspace has one directory per asset, with    *)
(* record.json in it, and a ledger, asset-index.json, that repeats the     *)
(* records.  No function takes a lock.  A document lands before its asset  *)
(* is registered, in the workspace that is open by then.                   *)
(*                                                                         *)
(* A document is a name in a workspace; its positions, and the kinds,      *)
(* titles, times and order of the assets, are left out.                    *)
(***************************************************************************)
EXTENDS Naturals, FiniteSets

CONSTANTS
  Assets,       \* the uuids assets are created under
  Docs,         \* the names of documents
  Folders,      \* workspace directories
  Clients,      \* requests the server handles at a time
  MaxAssets,    \* MAX_ASSETS
  MaxLedger     \* the entries MAX_ASSET_INDEX_BYTES has room for

VARIABLES
  current,      \* the workspace the server has open
  assetDirs,    \* disk: the assets of each workspace that have a directory
  assetRecords, \* disk: each record.json of each workspace, [asset, doc], doc {} or {name}
  ledger,       \* disk: the assets in the asset-index.json of each workspace
  documents,    \* disk: the documents of each workspace
  asks,         \* the request of each client, and what it has read
  created,      \* observation: the assets of each workspace answered with 201
  misplaced     \* observation: assets of documents under which another workspace was opened

files == <<assetDirs, assetRecords, ledger, documents>>
assetVars == <<current, files, asks, created, misplaced>>

NoAsk == [op |-> "none", at |-> "idle", ws |-> {}, asset |-> {}, doc |-> {}, read |-> {},
          found |-> {}, must |-> {}]

AssetInit ==
  /\ current \in Folders
  /\ assetDirs = [ws \in Folders |-> {}]
  /\ assetRecords = [ws \in Folders |-> {}]
  /\ ledger = [ws \in Folders |-> {}]
  /\ documents = [ws \in Folders |-> {}]
  /\ asks = [k \in Clients |-> NoAsk]
  /\ created = [ws \in Folders |-> {}]
  /\ misplaced = {}

Stands(k, op, at) == asks[k].op = op /\ asks[k].at = at
Registers(k, at) == asks[k].op \in {"asset", "document"} /\ asks[k].at = at
Steps(k, at) == asks' = [asks EXCEPT ![k].at = at]
AskEnds(k) == asks' = [asks EXCEPT ![k] = NoAsk]
Here(k) == CHOOSE ws \in Folders : asks[k].ws = {ws}
With(there, ws, elements) == [there EXCEPT ![ws] = @ \cup elements]
Stored(ws) == {r.asset : r \in assetRecords[ws]}

\* crypto.randomUUID.
FreshAssets ==
  {a \in Assets : /\ \A ws \in Folders : a \notin assetDirs[ws]
                  /\ \A k \in Clients : asks[k].asset # {a}}

-----------------------------------------------------------------------------
(* POST /docs and POST /assets, up to the registration of the asset *)

\* handleAssetsCreate: the workspace is looked up once.
AssetAsked(k) ==
  /\ asks[k] = NoAsk
  /\ \E a \in FreshAssets :
       asks' = [asks EXCEPT ![k] = [NoAsk EXCEPT
                  !.op = "asset", !.at = "checking", !.ws = {current}, !.asset = {a}]]
  /\ UNCHANGED <<current, files, created, misplaced>>

\* requirePositionDir, and the lstat that answers 409 for a document there is.
DocumentAsked(k) ==
  /\ asks[k] = NoAsk
  /\ \E d \in Docs \ documents[current] :
       asks' = [asks EXCEPT ![k] = [NoAsk EXCEPT
                  !.op = "document", !.at = "landing", !.ws = {current}, !.doc = {d}]]
  /\ UNCHANGED <<current, files, created, misplaced>>

\* Variant: open "w" instead of "wx" (refuted by AssetsAreKept).
LandsOver(k) ==
  /\ Stands(k, "document", "landing")
  /\ Steps(k, "landed")
  /\ documents' = With(documents, Here(k), asks[k].doc)
  /\ UNCHANGED <<current, assetDirs, assetRecords, ledger, created, misplaced>>

\* open "wx": the document is made, or there is one by now.
DocumentLands(k) ==
  /\ Stands(k, "document", "landing")
  /\ \/ /\ asks[k].doc \subseteq documents[Here(k)] /\ AskEnds(k)
        /\ UNCHANGED documents
     \/ /\ ~ (asks[k].doc \subseteq documents[Here(k)]) /\ Steps(k, "landed")
        /\ documents' = With(documents, Here(k), asks[k].doc)
  /\ UNCHANGED <<current, assetDirs, assetRecords, ledger, created, misplaced>>

\* requireOpen, again: the asset is of the workspace that is open now.
DocumentNamed(k) ==
  /\ Stands(k, "document", "landed")
  /\ \E a \in FreshAssets :
       /\ asks' = [asks EXCEPT ![k].at = "checking", ![k].ws = {current}, ![k].asset = {a}]
       /\ misplaced' = IF current # Here(k) THEN misplaced \cup {a} ELSE misplaced
  /\ UNCHANGED <<current, files, created>>

-----------------------------------------------------------------------------
(* writeAssetRecord and appendAssetIndex *)

\* assertAssetCapacity.
Checks(k) ==
  /\ Registers(k, "checking")
  /\ \/ Cardinality(assetDirs[Here(k)]) >= MaxAssets /\ AskEnds(k)
     \/ Cardinality(assetDirs[Here(k)]) < MaxAssets /\ Steps(k, "preparing")
  /\ UNCHANGED <<current, files, created, misplaced>>

Makes(k) ==
  /\ Registers(k, "preparing")
  /\ assetDirs' = With(assetDirs, Here(k), asks[k].asset)
  /\ Steps(k, "writing")
  /\ UNCHANGED <<current, assetRecords, ledger, documents, created, misplaced>>

\* atomicWriteJson may throw after its rename.
Writes(k) ==
  /\ Registers(k, "writing")
  /\ \E a \in asks[k].asset :
       assetRecords' = With(assetRecords, Here(k), {[asset |-> a, doc |-> asks[k].doc]})
  /\ Steps(k, "appending") \/ AskEnds(k)
  /\ UNCHANGED <<current, assetDirs, ledger, documents, created, misplaced>>

\* readIndex; handleDocsCreate asks for the workspace a third time.  An entry that a list has
\* put there meanwhile is refused with 500.
Appends(k) ==
  /\ Registers(k, "appending")
  /\ LET ws == IF asks[k].op = "document" THEN current ELSE Here(k) IN
       /\ \/ asks[k].asset \subseteq ledger[ws] /\ AskEnds(k)
          \/ /\ ~ (asks[k].asset \subseteq ledger[ws])
             /\ asks' = [asks EXCEPT ![k].at = "indexing", ![k].ws = {ws}, ![k].read = ledger[ws]]
       /\ misplaced' = IF ws # Here(k) THEN misplaced \cup asks[k].asset ELSE misplaced
  /\ UNCHANGED <<current, files, created>>

\* The ledger that was read, and the new entry, replace the ledger there is.
Indexes(k) ==
  /\ Registers(k, "indexing")
  /\ LET ws == Here(k)
         entries == asks[k].read \cup asks[k].asset IN
       \/ Cardinality(entries) > MaxLedger /\ UNCHANGED <<ledger, created>>
       \/ /\ Cardinality(entries) <= MaxLedger
          /\ ledger' = [ledger EXCEPT ![ws] = entries]
          /\ \/ created' = With(created, ws, asks[k].asset)
             \/ UNCHANGED created
  /\ AskEnds(k)
  /\ UNCHANGED <<current, assetDirs, assetRecords, documents, misplaced>>

-----------------------------------------------------------------------------
(* GET /assets: listAssetRecords, rebuildAssetIndex *)

ListAsked(k) ==
  /\ asks[k] = NoAsk
  /\ asks' = [asks EXCEPT ![k] = [NoAsk EXCEPT
                !.op = "list", !.at = "reading", !.ws = {current},
                !.read = assetDirs[current], !.must = created[current]]]
  /\ UNCHANGED <<current, files, created, misplaced>>

\* Variant: the list is what the ledger says (refuted by AssetsAreKept).
ListReadsLedger(k) ==
  /\ Stands(k, "list", "reading")
  /\ asks' = [asks EXCEPT ![k].at = "comparing", ![k].found = ledger[Here(k)]]
  /\ UNCHANGED <<current, files, created, misplaced>>

\* readAssetRecord of each directory; one without a record ends the list with 404.
ListReadsRecord(k) ==
  /\ Stands(k, "list", "reading")
  /\ \/ asks[k].read = {} /\ Steps(k, "comparing")
     \/ \E a \in asks[k].read :
          \/ /\ a \in Stored(Here(k))
             /\ asks' = [asks EXCEPT ![k].read = @ \ {a}, ![k].found = @ \cup {a}]
          \/ /\ a \notin Stored(Here(k))
             /\ asks' = [asks EXCEPT ![k].at = "refused", ![k].asset = {a}]
  /\ UNCHANGED <<current, files, created, misplaced>>

\* Only a ledger that differs from the records is replaced.
ListCompares(k) ==
  /\ Stands(k, "list", "comparing")
  /\ Steps(k, IF ledger[Here(k)] = asks[k].found THEN "answering" ELSE "rebuilding")
  /\ UNCHANGED <<current, files, created, misplaced>>

\* Records the ledger has no room for refuse the list with 500.
ListRebuilds(k) ==
  /\ Stands(k, "list", "rebuilding")
  /\ \/ /\ Cardinality(asks[k].found) > MaxLedger
        /\ Steps(k, "refused")
        /\ UNCHANGED ledger
     \/ /\ Cardinality(asks[k].found) <= MaxLedger
        /\ ledger' = [ledger EXCEPT ![Here(k)] = asks[k].found]
        /\ Steps(k, "answering")
  /\ UNCHANGED <<current, assetDirs, assetRecords, documents, created, misplaced>>

ListEnds(k) ==
  /\ Stands(k, "list", "answering") \/ Stands(k, "list", "refused")
  /\ AskEnds(k)
  /\ UNCHANGED <<current, files, created, misplaced>>

-----------------------------------------------------------------------------
(* The rest of the server *)

\* A storage error on the way: nothing that has been made is undone.
RegistrationFails(k) ==
  /\ \E at \in {"landed", "preparing", "writing", "indexing"} : Registers(k, at)
  /\ AskEnds(k)
  /\ UNCHANGED <<current, files, created, misplaced>>

\* POST /workspace/open.
OtherOpened ==
  /\ current' \in Folders \ {current}
  /\ UNCHANGED <<files, asks, created, misplaced>>

AssetServerRestarts ==
  /\ asks' = [k \in Clients |-> NoAsk]
  /\ UNCHANGED <<current, files, created, misplaced>>

AssetNext ==
  \/ \E k \in Clients :
       \/ AssetAsked(k) \/ DocumentAsked(k) \/ DocumentLands(k) \/ DocumentNamed(k)
       \/ Checks(k) \/ Makes(k) \/ Writes(k) \/ Appends(k) \/ Indexes(k)
       \/ ListAsked(k) \/ ListReadsRecord(k) \/ ListCompares(k) \/ ListRebuilds(k) \/ ListEnds(k)
       \/ RegistrationFails(k)
  \/ OtherOpened \/ AssetServerRestarts

AssetSpec == AssetInit /\ [][AssetNext]_assetVars

-----------------------------------------------------------------------------
(* Properties *)

\* The ledger names no asset that is not stored: the record comes first.
LedgerOfRecords ==
  \A ws \in Folders : ledger[ws] \subseteq Stored(ws) \cup misplaced

\* A list that is answered has every asset answered as created before the list began, although
\* concurrent appends and rebuilds take entries out of the ledger; and one that is refused for a
\* directory without a record was not refused for one of those.
ListIsComplete ==
  \A k \in Clients :
    /\ Stands(k, "list", "answering") => asks[k].must \ misplaced \subseteq asks[k].found
    /\ Stands(k, "list", "refused") => asks[k].must \cap asks[k].asset \subseteq misplaced

\* A document is one asset, not two, whoever else creates it at the same time, and the docRef of
\* an asset leads to a document.
OneAssetPerDocument ==
  \A ws \in Folders : \A r, q \in {n \in assetRecords[ws] : n.asset \notin misplaced /\ n.doc # {}} :
    r.doc \subseteq documents[ws] /\ (r.doc = q.doc => r = q)

\* What has been answered with 201 stays one asset, listed from then on, through interleavings,
\* failures and restarts (assets/store.ts:211, "scans the landed record directories").  It says
\* nothing of an asset whose document landed in one workspace while another was being opened:
\* docs.ts looks the workspace up three times.
AssetsAreKept == LedgerOfRecords /\ ListIsComplete /\ OneAssetPerDocument
=============================================================================
