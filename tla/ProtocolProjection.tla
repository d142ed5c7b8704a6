------------------------- MODULE ProtocolProjection -------------------------
(***************************************************************************)
(* From the events of a transaction, as they are delivered, to the rows of  *)
(* the projection: parseEvents (packages/data-foundation/src/chainhook.ts)  *)
(* brings the providers' envelopes to one form, compactChainhookBatch       *)
(* discards what is not needed before anything is stored, and               *)
(* projectProtocolEvents decodes the rest (protocol-projection.ts).         *)
(*                                                                         *)
(* An event on the chain is [kind, contract, asset, print, amount, to]: a   *)
(* contract's print, or a mint, burn or transfer of a token.  Clarity       *)
(* values are taken apart already: `print` is the record printed, with the  *)
(* fields a decoder asks for, or NoPrint.                                   *)
(***************************************************************************)
EXTENDS Integers, FiniteSets, Sequences, SequencesExt, FiniteSetsExt

Nothing == "nothing"
NoPrint == [none |-> TRUE]
NoAsset == <<Nothing>>
NoAmount == -1

(* A manifest: the enabled entries by contract, with protocol, the role     *)
(* that the contract's name tells, and the block they are active from.      *)
ZestRoles == {"market-vault", "market", "vault"}

IsProjectionBackfillContract(entry) ==
    \/ entry.protocol = "zest" /\ entry.role \in ZestRoles
    \/ entry.protocol = "bitflow" /\ entry.role = "pool"
    \/ entry.protocol = "sbtc" /\ entry.role = "registry"

ProjectionBackfillContracts(manifest) ==
    {c \in DOMAIN manifest : IsProjectionBackfillContract(manifest[c])}

-----------------------------------------------------------------------------
(* The three envelopes an event comes in: Chainhook's `data`, the API's     *)
(* typed envelopes, and the operations of Chainhooks 2.0.                   *)
Envelopes == {"data", "typed", "operation"}
TokenKinds == {"ft_mint", "ft_transfer", "nft_mint", "nft_burn", "nft_transfer"}

Envelope(e, form) ==
    IF form = "typed" /\ e.kind \in TokenKinds
    THEN [type |-> IF e.kind \in {"ft_mint", "ft_transfer"} THEN "fungible_token_asset"
                   ELSE "non_fungible_token_asset",
          asset |-> [action |-> e.kind, asset_id |-> e.asset, value |-> e.print,
                     amount |-> e.amount, recipient |-> e.to]]
    ELSE IF form = "typed"
    THEN [type |-> "contract_log",
          contract_log |-> [contract_id |-> e.contract, value |-> e.print]]
    ELSE IF form = "operation"
    THEN [type |-> e.kind,
          metadata |-> [contract_identifier |-> e.contract, asset_identifier |-> e.asset,
                        value |-> e.print, amount |-> e.amount, recipient |-> e.to]]
    ELSE [type |-> e.kind,
          data |-> [contract_identifier |-> e.contract, asset_identifier |-> e.asset,
                    value |-> e.print, amount |-> e.amount, recipient |-> e.to]]

Parsed(type, contract, asset, print, amount, to) ==
    [kind |-> type, contract |-> contract, asset |-> asset, print |-> print,
     amount |-> amount, to |-> to]

OfFields(type, f) ==
    Parsed(type, f.contract_identifier, f.asset_identifier, f.value, f.amount, f.recipient)

AssetTypeUnread(x) == x.type    \* mutant: the asset's action is not put into the type

(* The type of a typed asset event is put together with its action.         *)
AssetType(x) == x.asset.action

V2OperationEvent(x) == [type |-> x.type, data |-> x.metadata]

ParseEvent(x) ==
    LET y == IF "metadata" \in DOMAIN x THEN V2OperationEvent(x) ELSE x
    IN  IF "data" \in DOMAIN y THEN OfFields(y.type, y.data)
        ELSE IF "contract_log" \in DOMAIN y
        THEN Parsed(y.type, y.contract_log.contract_id, NoAsset, y.contract_log.value,
                    NoAmount, Nothing)
        ELSE Parsed(AssetType(y), Nothing, y.asset.asset_id, y.asset.value,
                    y.asset.amount, y.asset.recipient)

ParseTransaction(tx) == [tx EXCEPT !.events = [i \in DOMAIN tx.events |-> ParseEvent(tx.events[i])]]

-----------------------------------------------------------------------------
(* Compaction, per delivered block: what the projection contracts log, and  *)
(* the pool tokens of Bitflow; a transaction without either is left out.    *)
PoolToken(contract) == <<contract, "pool-token-id">>

(* flatMap, and filter as the flatMap that leaves out; a fold, as what it   *)
(* keeps is proved.                                                         *)
Joined(ss) == FoldLeft(LAMBDA joined, s : joined \o s, <<>>, ss)
Keeping(s, S) == Joined([i \in DOMAIN s |-> IF s[i] \in S THEN <<s[i]>> ELSE <<>>])

Relevant(manifest, e) ==
    LET contracts == ProjectionBackfillContracts(manifest)
    IN  \/ e.contract \in contracts /\ e.kind = "contract_log"
        \/ /\ e.kind \in {"nft_mint", "nft_burn", "nft_transfer"}
           /\ e.asset \in {PoolToken(c) : c \in {d \in contracts : manifest[d].protocol = "bitflow"}}

CompactTransaction(manifest, tx) ==
    [tx EXCEPT !.events = Keeping(tx.events, {e \in Range(tx.events) : Relevant(manifest, e)})]

CompactChainhookBatch(manifest, txs) ==
    LET compacted == [i \in DOMAIN txs |-> CompactTransaction(manifest, txs[i])]
    IN  Keeping(compacted, {tx \in Range(compacted) : tx.events # <<>>})

-----------------------------------------------------------------------------
(* The rows.  NoRow: the event says nothing about a position; Failed: it    *)
(* cannot be decoded, which becomes an issue.                               *)
NoRow == [what |-> "none"]
Failed(protocol) == [what |-> "issue", protocol |-> protocol]
Row(protocol, kind, owner, position, amount) ==
    [what |-> "row", protocol |-> protocol, kind |-> kind, owner |-> owner,
     position |-> position, amount |-> amount]

Has(print, fields) == fields \subseteq DOMAIN print

(* The account holds supply as vault shares, and collateral and debt.       *)
VaultActions == {"deposit", "redeem"}
AccountActions == {"collateral-add", "collateral-remove", "debt-add-scaled", "debt-remove-scaled"}

DecodeZest(e) ==
    IF ~Has(e.print, {"action"}) THEN Failed("zest")
    ELSE IF e.print.action \in VaultActions
    THEN IF Has(e.print, {"recipient", "amount", "shares"})
         THEN Row("zest", e.print.action, e.print.recipient,
                  <<"zest", e.print.recipient, e.contract>>, e.print.amount)
         ELSE Failed("zest")
    ELSE IF e.print.action \notin AccountActions THEN NoRow
    ELSE IF Has(e.print, {"account", "amount"})
    THEN Row("zest", e.print.action, e.print.account, <<"zest", e.print.account>>, e.print.amount)
    ELSE Failed("zest")

DecodeBitflow(e, pool) ==
    IF e.asset = PoolToken(pool) /\ e.kind \in {"nft_mint", "nft_burn", "nft_transfer"}
    THEN IF Has(e.print, {"owner", "id"})
         THEN Row("bitflow", e.kind, e.print.owner, <<"bitflow", pool, e.print.id>>, NoAmount)
         ELSE Failed("bitflow")
    ELSE IF e.contract # pool \/ ~Has(e.print, {"action"}) THEN NoRow
    ELSE IF e.print.action \notin {"pool-mint", "pool-burn"} THEN NoRow
    ELSE IF Has(e.print, {"user", "id", "amount"})
    THEN Row("bitflow", e.print.action, e.print.user, <<"bitflow", pool, e.print.id>>, e.print.amount)
    ELSE Failed("bitflow")

(* The mints of the approved token, in this transaction, of that amount.    *)
SameAmountMints(tx, token, amount) ==
    {i \in DOMAIN tx.events :
       /\ tx.events[i].kind = "ft_mint"
       /\ token # Nothing /\ tx.events[i].asset = <<token, "sbtc-token">>
       /\ tx.events[i].amount = amount}

(* Who gets a completed deposit: the print says, or the one mint does.      *)
Recipient(e, tx, token) ==
    LET mints == SameAmountMints(tx, token, e.print.amount)
    IN  IF Cardinality(mints) > 1 THEN Nothing
        ELSE IF "recipient" \in DOMAIN e.print THEN e.print.recipient
        ELSE IF mints = {} THEN Nothing
        ELSE tx.events[CHOOSE i \in mints : TRUE].to

WithdrawalTopics == {"withdrawal-accept", "withdrawal-reject"}

DecodeSbtc(e, tx, token) ==
    IF ~Has(e.print, {"topic"}) THEN Failed("sbtc")
    ELSE IF e.print.topic = "withdrawal-create"
    THEN IF Has(e.print, {"id", "sender", "amount"})
         THEN Row("sbtc", "withdrawal-create", e.print.sender,
                  <<"withdrawal", e.print.id>>, e.print.amount)
         ELSE Failed("sbtc")
    ELSE IF e.print.topic \in WithdrawalTopics
    THEN IF Has(e.print, {"id"})
         THEN Row("sbtc", e.print.topic, Nothing, <<"withdrawal", e.print.id>>, NoAmount)
         ELSE Failed("sbtc")
    ELSE IF e.print.topic # "completed-deposit" THEN NoRow
    ELSE IF ~Has(e.print, {"txid", "amount"}) \/ Recipient(e, tx, token) = Nothing
    THEN Failed("sbtc")
    ELSE Row("sbtc", "completed-deposit", Recipient(e, tx, token),
             <<"deposit", e.print.txid>>, e.print.amount)

Enabled(manifest, height) == {c \in DOMAIN manifest : manifest[c].from <= height}
OfRole(manifest, height, role) == {c \in Enabled(manifest, height) : manifest[c].role = role}
TheOne(S) == IF S = {} THEN Nothing ELSE CHOOSE c \in S : TRUE

(* The first protocol the event belongs to decodes it.                      *)
ProjectEvent(manifest, height, tx, e) ==
    LET enabled == Enabled(manifest, height)
        pools == {c \in OfRole(manifest, height, "pool") : e.contract = c \/ e.asset = PoolToken(c)}
    IN  IF e.contract \in enabled /\ manifest[e.contract].role \in ZestRoles THEN DecodeZest(e)
        ELSE IF pools # {} THEN DecodeBitflow(e, TheOne(pools))
        ELSE IF e.contract \in OfRole(manifest, height, "registry")
        THEN DecodeSbtc(e, tx, TheOne(OfRole(manifest, height, "token")))
        ELSE NoRow

ProjectTransaction(manifest, height, tx) ==
    IF tx.success # "yes" THEN <<>>
    ELSE LET rows == [i \in DOMAIN tx.events |-> ProjectEvent(manifest, height, tx, tx.events[i])]
         IN  Keeping(rows, Range(rows) \ {NoRow})

ProjectProtocolEvents(manifest, height, txs) ==
    Joined([i \in DOMAIN txs |-> ProjectTransaction(manifest, height, txs[i])])

-----------------------------------------------------------------------------
Delivered(txs, form) ==
    [i \in DOMAIN txs |-> [txs[i] EXCEPT !.events =
        [j \in DOMAIN txs[i].events |-> Envelope(txs[i].events[j], form)]]]

(* The rows that are kept of a delivery, in whatever envelope it came.      *)
Rows(results) == {r \in Range(results) : r.what = "row"}

AllRows(manifest, height, txs) == Rows(ProjectProtocolEvents(manifest, height, txs))

StoredRows(manifest, height, txs, form) ==
    Rows(ProjectProtocolEvents(manifest, height,
        CompactChainhookBatch(manifest,
            [i \in DOMAIN txs |-> ParseTransaction(Delivered(txs, form)[i])])))

NamesItsRecipient(tx) ==
    \A e \in Range(tx.events) :
        Has(e.print, {"topic"}) /\ e.print.topic = "completed-deposit"
          => "recipient" \in DOMAIN e.print

(* Nothing a row needs is lost on the way, in any envelope, provided every  *)
(* completed deposit names its recipient.                                   *)
ProjectionIsSound(manifest, height, txs) ==
    /\ \A form \in Envelopes :
         StoredRows(manifest, height, txs, form) = StoredRows(manifest, height, txs, "data")
    /\ (\A tx \in Range(txs) : NamesItsRecipient(tx))
         => AllRows(manifest, height, txs) \subseteq StoredRows(manifest, height, txs, "data")

(* docs/data-foundation.md: only unrelated operations are discarded.        *)
CompactionIsLossless(manifest, height, txs) ==
    AllRows(manifest, height, txs) \subseteq StoredRows(manifest, height, txs, "data")
=============================================================================
