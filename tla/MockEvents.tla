----------------------------- MODULE MockEvents -----------------------------
(***************************************************************************)
(* The updates of the mock geyser source (relay/src/geyser/mock-events.ts, *)
(* mock-source.ts) for a subscription request, and the CashbackSettled log *)
(* line it shares with the indexer (cashback-event.ts).                    *)
(*                                                                         *)
(* A request maps each kind to the sequence of its filter names; an        *)
(* account filter has a configuration.  Data is a sequence of bytes, of    *)
(* which only those a filter may constrain are told apart from Noise.      *)
(***************************************************************************)
EXTENDS Integers, Sequences, SequencesExt

CONSTANTS
    RandomSizes,    \* sizes of random account data (below 256 in the code)
    RandomBids      \* amounts of a synthetic settlement

Noise == "noise"
Zero == "zero"
Malformed == "malformed"
NoSize == -1
NoEvent == [type |-> "none"]

Kinds == {"transactions", "transactionsStatus", "accounts"}

IsSequence(s) == s \in Seq(ToSet(s))

AreFilters(filters) ==
    /\ IsSequence(filters)
    /\ \A i \in DOMAIN filters :
        /\ filters[i].datasize \in Nat \cup {NoSize}
        /\ filters[i].memcmp.offset \in Nat
        /\ IsSequence(filters[i].memcmp.bytes)

\* Filter names by kind, and the accounts' filters.
IsSubscribeRequest(r) ==
    /\ \A kind \in Kinds \cup {"blocks", "blocksMeta", "slots"} : IsSequence(r[kind])
    /\ \A a \in ToSet(r.accounts) : AreFilters(a.filters)

\* buildProgramTxRequest.
ProgramTxRequest ==
    [transactions |-> <<"flowback">>, transactionsStatus |-> <<>>, accounts |-> <<>>,
     blocks |-> <<>>, blocksMeta |-> <<>>, slots |-> <<>>]

----------------------------------------------------------------------------
(* CashbackSettled on the wire *)

\* Discriminator, user, searcher, bid, cashback, fee, timestamp.
EventByteLength == 8 + 32 + 32 + 8 + 8 + 8 + 8

TextLog == [prefix |-> FALSE, length |-> 0, discriminator |-> FALSE, event |-> NoEvent]

EncodeCashbackSettledLog(e) ==
    [prefix |-> TRUE, length |-> EventByteLength, discriminator |-> TRUE, event |-> e]

IsCashbackSettled(log) ==
    log.prefix /\ log.length = EventByteLength /\ log.discriminator

\* The first line that carries the event.
DecodeCashbackSettled(logs) ==
    LET events == {i \in DOMAIN logs : IsCashbackSettled(logs[i])}
    IN  IF events = {} THEN NoEvent
        ELSE logs[CHOOSE i \in events : \A j \in events : i <= j].event

\* fillCashbackEvent with nothing given: 90% of the bid, rounded down, and the rest.
CashbackEvents ==
    {[type |-> "settled", bid |-> b, cashback |-> (b * 90) \div 100,
      fee |-> b - (b * 90) \div 100] : b \in RandomBids}

----------------------------------------------------------------------------
(* Updates *)

TransactionUpdate(filter, slot, logs) ==
    [kind |-> "transaction", filter |-> filter, slot |-> slot, logs |-> logs]

StatusUpdate(filter, slot) ==
    [kind |-> "transactionStatus", filter |-> filter, slot |-> slot]

BlockUpdate(kind, filter, slot) ==
    [kind |-> kind, filter |-> filter, slot |-> slot,
     parentSlot |-> IF slot = 0 THEN 0 ELSE slot - 1]

SlotUpdate(filter, slot, status) ==
    [kind |-> "slot", filter |-> filter, slot |-> slot, status |-> status,
     parentSlot |-> IF slot = 0 THEN 0 ELSE slot - 1]

\* A configured key, or a random one: also when the configured one is malformed.
PickPubkeyOrRandom(configured) ==
    IF configured = {} THEN {Noise}
    ELSE {IF key = Malformed THEN Noise ELSE key : key \in configured}

WriteMemcmpIfItFits(data, memcmp) ==
    LET end == memcmp.offset + Len(memcmp.bytes)
    IN  [i \in DOMAIN data |->
            IF end <= Len(data) /\ i \in (memcmp.offset + 1)..end
            THEN memcmp.bytes[i - memcmp.offset] ELSE data[i]]

\* The data grows, filled with zeros, when the bytes do not fit.
WriteMemcmp(data, memcmp) ==
    LET end == memcmp.offset + Len(memcmp.bytes)
    IN  [i \in 1..(IF end > Len(data) THEN end ELSE Len(data)) |->
            IF i \in (memcmp.offset + 1)..end THEN memcmp.bytes[i - memcmp.offset]
            ELSE IF i <= Len(data) THEN data[i] ELSE Zero]

\* The last datasize filter wins; without one the size is random.
DataSizes(filters) ==
    LET sized == {i \in DOMAIN filters : filters[i].datasize # NoSize}
    IN  IF sized = {} THEN RandomSizes
        ELSE {filters[i].datasize : i \in {i \in sized : \A j \in sized : j <= i}}

\* A filter whose bytes are empty or cannot be decoded is skipped.
WriteFilter(data, filter) ==
    IF filter.memcmp.bytes = <<>> THEN data ELSE WriteMemcmp(data, filter.memcmp)

\* The data after the first n filters.
BuildAccountData(filters, size) ==
    LET data[n \in 0..Len(filters)] ==
            IF n = 0 THEN [i \in 1..size |-> Noise] ELSE WriteFilter(data[n - 1], filters[n])
    IN  data[Len(filters)]

AccountUpdates(filter, cfg, slot) ==
    {[kind |-> "account", filter |-> filter, slot |-> slot, pubkey |-> key,
      owner |-> owner, data |-> BuildAccountData(cfg.filters, size)] :
        key \in PickPubkeyOrRandom(cfg.account), owner \in PickPubkeyOrRandom(cfg.owner),
        size \in DataSizes(cfg.filters)}

UnconstrainedAccount == [account |-> {}, owner |-> {}, filters |-> <<>>]

\* mapRandomIntraslotEvent: one of the kinds subscribed to, or anything.
IntraslotEvents(req, slot) ==
    IF \A kind \in Kinds : req[kind] = <<>>
    THEN {TransactionUpdate("__mock_random_tx", slot, <<>>),
          StatusUpdate("__mock_random_tx_status", slot)}
         \cup AccountUpdates("__mock_random_account", UnconstrainedAccount, slot)
    ELSE {TransactionUpdate(f, slot, <<>>) : f \in ToSet(req.transactions)}
         \cup {StatusUpdate(f, slot) : f \in ToSet(req.transactionsStatus)}
         \cup UNION {AccountUpdates(a.name, a, slot) : a \in ToSet(req.accounts)}

\* mapSlotBoundaryEvents: block, block meta and three slot statuses for each
\* filter, or a single tick without a slot filter.
SlotBoundaryEvents(req, slot) ==
    [i \in DOMAIN req.blocks |-> BlockUpdate("block", req.blocks[i], slot)]
    \o [i \in DOMAIN req.blocksMeta |-> BlockUpdate("blockMeta", req.blocksMeta[i], slot)]
    \o IF req.slots = <<>> THEN <<SlotUpdate("slot", slot, slot % 3)>>
       ELSE [i \in 1..(3 * Len(req.slots)) |->
                SlotUpdate(req.slots[(i + 2) \div 3], slot, (i - 1) % 3)]

\* makeCashbackTransactionUpdate.
CashbackUpdate(slot, e) ==
    TransactionUpdate("flowback", slot, <<TextLog, EncodeCashbackSettledLog(e), TextLog>>)
=============================================================================
