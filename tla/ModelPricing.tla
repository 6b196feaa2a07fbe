----------------------------- MODULE ModelPricing -----------------------------
(***************************************************************************)
(* src/plugins/modelpricing: the prices of language models, downloaded by  *)
(* a worker thread from a catalogue on the network, reduced to the owner   *)
(* that each model officially has, and kept on disk.  A conditional        *)
(* request saves the download when the catalogue has not changed, so the   *)
(* tag and the index must belong together.                                 *)
(***************************************************************************)
EXTENDS Naturals, Sequences, FiniteSets

CONSTANTS
    Catalogues,    \* one set of owners per version of the catalogue, a sequence
    Markers,       \* for each configuration, the gateways' markers
    Broken,        \* the configurations that cannot be loaded
    Remote,        \* those that are no local files
    MaxFetches,    \* bound on what the user and the timer ask for
    MaxFaults      \* bound on the failed writes and the restarts

VARIABLES
    version,    \* the catalogue the site has now, and its tag
    files,      \* the tag and the index in the cache directory
    fetcher,    \* PricingWorker: a request, and the reply it is writing down
    errands,    \* calls queued for the worker's thread
    outcomes,   \* signals queued for the GUI's thread
    prices,     \* ModelPricing
    uses        \* [requests, faults], and whether a tag has stayed without its index

pricingVars == <<version, files, fetcher, errands, outcomes, prices, uses>>

Configs == DOMAIN Markers
NoTag == 0
Versions == 1..Len(Catalogues)

-----------------------------------------------------------------------------
(* buildPriceIndex: each model goes to the owner, no gateway, whose models *)
(* are most of the model's family; the smaller owner breaks a tie.         *)

Models(owners) == {o.model : o \in owners}
Owned(owners, provider) == Cardinality({o \in owners : o.provider = provider})
InFamily(owners, x) ==
    Cardinality({o \in owners : o.provider = x.provider /\ o.family = x.family})

\* The share of x's family among its owner's models exceeds that of y.
Better(owners, x, y) ==
    LET l == InFamily(owners, x) * Owned(owners, y.provider)
        r == InFamily(owners, y) * Owned(owners, x.provider)
    IN l > r \/ (l = r /\ Owned(owners, x.provider) < Owned(owners, y.provider))

Official(owners, markers, model) == {o \in owners : o.model = model /\ o.npm \notin markers}

BuildPriceIndex(owners, markers) ==
    [m \in {n \in Models(owners) : Official(owners, markers, n) # {}} |->
        CHOOSE o \in Official(owners, markers, m) :
            \A p \in Official(owners, markers, m) :
                ~Better(owners, p, o) /\ (Better(owners, o, p) \/ o.provider <= p.provider)]

Index(v, config) == BuildPriceIndex(Catalogues[v], Markers[config])
NoPrices == [m \in {} |-> NoTag]
NoIndex == [config |-> CHOOSE c \in Configs : TRUE, prices |-> NoPrices]

-----------------------------------------------------------------------------
NoReply == [at |-> "none", config |-> NoIndex.config, tag |-> NoTag, version |-> 1]

Unloaded == [source |-> "none", settings |-> "none", index |-> NoPrices,
             busy |-> FALSE, ready |-> FALSE,
             checked |-> FALSE, raced |-> FALSE]     \* the last two: history

Init ==
    /\ version = 1
    /\ files = [tag |-> NoTag, index |-> NoIndex]
    /\ fetcher = NoReply
    /\ errands = <<>> /\ outcomes = <<>>
    /\ prices = Unloaded
    /\ uses = [requests |-> 0, faults |-> 0, lost |-> FALSE]     \* the last: history

Fault(lost) == uses.faults < MaxFaults
               /\ uses' = [uses EXCEPT !.faults = @ + 1, !.lost = @ \/ lost]

-----------------------------------------------------------------------------
(* The worker, which serves its queue while a request is on its way.       *)

Free == fetcher.at \in {"none", "sent"}
Do(type) == Free /\ errands # <<>> /\ Head(errands).type = type /\ errands' = Tail(errands)
Tell(o) == outcomes' = Append(outcomes, o)

\* The index on disk is taken whatever markers it was made with.
LoadConfig ==
    /\ Do("load")
    /\ Tell([type |-> "config", config |-> Head(errands).config,
             ok |-> Head(errands).config \notin Broken, prices |-> files.index.prices])
    /\ UNCHANGED <<version, files, fetcher, prices, uses>>

\* While a request is on its way another one is dropped, its settings with it.
Fetch ==
    /\ Do("fetch")
    /\ fetcher' = IF fetcher.at = "sent" THEN fetcher
                  ELSE [at |-> "sent", config |-> Head(errands).config,
                        tag |-> Head(errands).tag, version |-> 1]
    /\ UNCHANGED <<version, files, outcomes, prices, uses>>

Fetched(ok, notModified, v, index) ==
    [type |-> "fetched", ok |-> ok, notModified |-> notModified, prices |-> index,
     config |-> fetcher.config, version |-> v]

\* onReplyFinished, whose writes are steps of their own: the process may end between.
ReplyFails ==
    /\ fetcher.at = "sent"
    /\ fetcher' = NoReply
    /\ Tell(Fetched(FALSE, FALSE, version, NoPrices))
    /\ UNCHANGED <<version, files, errands, prices, uses>>

\* A 304 renews the date of the index on disk and nothing else.
ReplyNotModified ==
    /\ fetcher.at = "sent" /\ fetcher.tag = version
    /\ fetcher' = NoReply
    /\ Tell(Fetched(TRUE, TRUE, version, NoPrices))
    /\ UNCHANGED <<version, files, errands, prices, uses>>

\* A catalogue without any official price is an error.
ReplyArrives ==
    /\ fetcher.at = "sent" /\ fetcher.tag # version
    /\ IF Index(version, fetcher.config) = NoPrices
       THEN fetcher' = NoReply /\ Tell(Fetched(FALSE, FALSE, version, NoPrices))
       ELSE fetcher' = [fetcher EXCEPT !.at = "tag", !.version = version] /\ UNCHANGED outcomes
    /\ UNCHANGED <<version, files, errands, prices, uses>>

\* The tag may be missing from the reply, or not be written.
WriteTag ==
    /\ fetcher.at = "tag"
    /\ \/ files' = [files EXCEPT !.tag = fetcher.version] /\ UNCHANGED uses
       \/ Fault(FALSE) /\ UNCHANGED files
    /\ fetcher' = [fetcher EXCEPT !.at = "index"]
    /\ UNCHANGED <<version, errands, outcomes, prices>>

WriteIndex ==
    /\ fetcher.at = "index"
    /\ LET index == Index(fetcher.version, fetcher.config)
       IN /\ \/ /\ files' = [files EXCEPT !.index = [config |-> fetcher.config, prices |-> index]]
                /\ uses' = [uses EXCEPT !.lost = FALSE]
             \/ Fault(TRUE) /\ UNCHANGED files
          /\ Tell(Fetched(TRUE, FALSE, fetcher.version, index))
    /\ fetcher' = NoReply
    /\ UNCHANGED <<version, errands, prices>>

-----------------------------------------------------------------------------
(* The GUI thread.                                                         *)

Asked == uses.requests < MaxFetches /\ uses' = [uses EXCEPT !.requests = @ + 1]

SetConfigSource ==
    /\ Asked
    /\ \E c \in Configs \ {prices.source} :
          IF c \in Remote
          THEN prices' = [prices EXCEPT !.source = c, !.settings = "none"] /\ UNCHANGED errands
          ELSE /\ prices' = [prices EXCEPT !.source = c, !.busy = TRUE]
               /\ errands' = Append(errands, [type |-> "load", config |-> c])
    /\ UNCHANGED <<version, files, fetcher, outcomes>>

\* Mutant: sends the tag whatever markers the index was made with.
TagOnDisk(config) == files.tag

\* readEtag: none if the index on disk was made with other markers.  The worker may
\* have written the tag and not yet the index.
ReadEtag(config) ==
    IF files.index # NoIndex /\ Markers[files.index.config] # Markers[config]
    THEN NoTag ELSE files.tag

UnderWay ==
    \/ fetcher.at # "none"
    \/ \E i \in DOMAIN errands : errands[i].type = "fetch"
    \/ \E i \in DOMAIN outcomes : outcomes[i].type = "fetched"

RequestFetch(p) ==
    /\ prices' = [p EXCEPT !.busy = TRUE, !.raced = UnderWay]
    /\ errands' = Append(errands, [type |-> "fetch", config |-> p.settings, tag |-> ReadEtag(p.settings)])

\* refresh(), and maybeAutoRefresh which asks for prices that are there already.
Refresh ==
    /\ Asked
    /\ ~prices.busy /\ prices.settings # "none"
    /\ RequestFetch(prices)
    /\ UNCHANGED <<version, files, fetcher, outcomes>>

Hear(type) == outcomes # <<>> /\ Head(outcomes).type = type /\ outcomes' = Tail(outcomes)

\* It ends the busy state of a fetch that is still under way, too.
WithConfig(r) ==
    LET p == [prices EXCEPT !.busy = FALSE, !.checked = FALSE]
    IN IF ~r.ok THEN [p EXCEPT !.settings = "none"]
       ELSE [p EXCEPT !.settings = r.config, !.ready = @ \/ r.prices # NoPrices,
                      !.index = IF r.prices # NoPrices THEN r.prices ELSE @]

OnConfigLoaded ==
    /\ Hear("config")
    /\ prices' = WithConfig(Head(outcomes))
    /\ UNCHANGED <<version, files, fetcher, errands, uses>>

\* The index at hand is older than the last noon.
OnStaleConfigLoaded ==
    /\ Hear("config")
    /\ LET p == WithConfig(Head(outcomes))
       IN p.ready /\ p.settings # "none" /\ RequestFetch(p)
    /\ UNCHANGED <<version, files, fetcher, uses>>

\* Mutant: a failed fetch shows its error and stays busy.
OnFetchedBusy ==
    /\ Hear("fetched")
    /\ LET r == Head(outcomes)
       IN prices' = IF ~r.ok THEN prices
                    ELSE [prices EXCEPT !.busy = FALSE,
                             !.index = IF r.notModified THEN @ ELSE r.prices]
    /\ UNCHANGED <<version, files, fetcher, errands, uses>>

OnFetched ==
    /\ Hear("fetched")
    /\ LET r == Head(outcomes)
           index == IF r.notModified THEN prices.index ELSE r.prices
       IN prices' = IF ~r.ok THEN [prices EXCEPT !.busy = FALSE]
                    ELSE [prices EXCEPT !.busy = FALSE, !.index = index, !.ready = index # NoPrices,
                             !.checked = /\ r.config = prices.settings /\ r.version = version
                                         /\ r.notModified => ~prices.raced /\ ~uses.lost]
    /\ UNCHANGED <<version, files, fetcher, errands, uses>>

-----------------------------------------------------------------------------
(* Outside.                                                                *)

CatalogueChanges ==
    /\ version + 1 \in Versions
    /\ version' = version + 1
    /\ prices' = [prices EXCEPT !.checked = FALSE]
    /\ UNCHANGED <<files, fetcher, errands, outcomes, uses>>

Restart ==
    /\ Fault(fetcher.at = "index")
    /\ fetcher' = NoReply /\ errands' = <<>> /\ outcomes' = <<>> /\ prices' = Unloaded
    /\ UNCHANGED <<version, files>>

Worker == LoadConfig \/ Fetch \/ ReplyFails \/ ReplyNotModified \/ ReplyArrives
          \/ WriteTag \/ WriteIndex
GuiHears == OnConfigLoaded \/ OnStaleConfigLoaded \/ OnFetched

Next == Worker \/ GuiHears \/ SetConfigSource \/ Refresh \/ CatalogueChanges \/ Restart

Spec == Init /\ [][Next]_pricingVars

-----------------------------------------------------------------------------

\* The price list's variables have their types.
TypeOK ==
    /\ version \in Versions /\ files.tag \in Versions \cup {NoTag}
    /\ files.index.config \in Configs /\ fetcher.at \in {"none", "sent", "tag", "index"}
    /\ prices.source \in Configs \cup {"none"} /\ prices.settings \in Configs \cup {"none"}
    /\ {prices.busy, prices.ready, prices.checked} \subseteq BOOLEAN

\* A list that a fetch has confirmed stays that of the catalogue, under the markers in
\* force and with no gateway's prices, until the catalogue or the markers change:
\* although configurations change while a request is on its way.  A 304 confirms
\* nothing if a failed write or a crash has left a tag on disk without its index
\* (lost), or the fetch was asked for while an earlier one was under way (raced: a
\* configuration that loads ends the busy state early; the fetch is then dropped, or
\* sent with a tag whose index is not written yet).
PricesCurrent ==
    prices.checked /\ prices.settings # "none" =>
        /\ prices.index = Index(version, prices.settings)
        /\ \A m \in DOMAIN prices.index : prices.index[m].npm \notin Markers[prices.settings]
=============================================================================
