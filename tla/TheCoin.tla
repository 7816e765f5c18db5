------------------------------ MODULE TheCoin ------------------------------
(***************************************************************************)
(* The coin's contract (TheCoin.sol and the contracts it inherits from):   *)
(* balances, the requests that clients sign and anybody may submit, frozen *)
(* accounts and the plugins of an account.  The plugin is UberConverter;   *)
(* a client may attach it more than once, with the permission to withdraw  *)
(* or without.  Each transaction is one action.  The clock stands for      *)
(* seconds and milliseconds alike.                                         *)
(***************************************************************************)
EXTENDS UberConverter, Sequences, FiniteSetsExt

CONSTANTS Treasury,    \* the account with the roles TheCoin and Minter
          Broker,      \* the account with the role Broker
          Suspects,    \* bound: accounts that are ever frozen
          Freezes,     \* bound: the moments up to which they are
          MaxSupply,   \* bound: coin in existence
          MaxFee,      \* bound: coin a submitter asks for a request
          MaxPlugins   \* bound: plugins of a client

ASSUME CoinAssumption == /\ {Treasury, Broker} \cup Suspects \subseteq Accounts
                         /\ IsFiniteSet(Accounts)
                         /\ Freezes \subseteq Nat
                         /\ MaxSupply \in Nat
                         /\ MaxFee \in Nat
                         /\ MaxPlugins \in Nat

VARIABLES balances,     \* account -> coin
          lastTx,       \* client -> lastTxTimestamp
          freezeUntil,  \* account -> the moment up to which it is frozen
          plugins,      \* client -> for each plugin: may it withdraw?
          accepted      \* history: client -> when each of the requests that
                        \* took effect was signed, in the order of the chain

clock == <<now, horizon>>
converter == <<transfers, total>>
requests == <<lastTx, accepted>>
vars == <<clock, converter, balances, requests, freezeUntil, plugins>>

Amounts == 0 .. MaxSupply
Supply == MapThenSumSet(LAMBDA a : balances[a], Accounts)

Init == /\ now = 1
        /\ horizon = 1
        /\ transfers = [c \in Clients |-> [a \in Accounts |-> [t \in Times |-> 0]]]
        /\ total = [c \in Clients |-> 0]
        /\ balances = [a \in Accounts |-> 0]
        /\ lastTx = [c \in Clients |-> 0]
        /\ freezeUntil = [a \in Accounts |-> 0]
        /\ plugins = [c \in Clients |-> <<>>]
        /\ accepted = [c \in Clients |-> <<>>]

-----------------------------------------------------------------------------
(* What every transfer of coin does.                                       *)

Unfrozen(from) == freezeUntil[from] < now

Transferred(from, to, coin) ==
    [balances EXCEPT ![from] = @ - coin, ![to] = @ + coin]

\* Mutant: the balance is not looked at.
TransferOverdrawn(from, to, coin) ==
    /\ Unfrozen(from)
    /\ balances' = Transferred(from, to, coin)

\* _transfer and the check before it.
Transfer(from, to, coin) ==
    /\ Unfrozen(from)
    /\ coin <= balances[from]
    /\ balances' = Transferred(from, to, coin)

\* The plugins of the payer are asked first; those of the payee do nothing.
NotifyWithdraw(from, coin, at) ==
    from \in Clients =>
        PreWithdraw(from, Len(plugins[from]), balances[from], coin, at)

\* A request that the client signed at a moment after that of the last one.
Signed(client, at) ==
    /\ at > lastTx[client]
    /\ lastTx' = [lastTx EXCEPT ![client] = at]

-----------------------------------------------------------------------------
(* Operations of the company.                                              *)

MintCoins(coin) ==
    /\ Supply + coin <= MaxSupply
    /\ balances' = [balances EXCEPT ![Treasury] = @ + coin]
    /\ UNCHANGED <<clock, converter, requests, freezeUntil, plugins>>

BurnCoins(coin) ==
    /\ Unfrozen(Treasury)
    /\ coin <= balances[Treasury]
    /\ balances' = [balances EXCEPT ![Treasury] = @ - coin]
    /\ UNCHANGED <<clock, converter, requests, freezeUntil, plugins>>

ExactTransfer(to, coin, at) ==
    /\ NotifyWithdraw(Broker, coin, at)
    /\ Transfer(Broker, to, coin)
    /\ UNCHANGED <<clock, converter, requests, freezeUntil, plugins>>

\* No plugin is asked.
RevertTransfer(from, to, coin) ==
    /\ Transfer(from, to, coin)
    /\ UNCHANGED <<clock, converter, requests, freezeUntil, plugins>>

\* Two transfers, of which the second is left out if there is no fee.
RunCloneTransfer(from, to, coin, fee) ==
    /\ from \in Clients => lastTx[from] = 0
    /\ Unfrozen(from)
    /\ coin <= balances[from]
    /\ fee <= Transferred(from, to, coin)[from]
    /\ balances' = [Transferred(from, to, coin) EXCEPT ![from] = @ - fee,
                                                       ![Treasury] = @ + fee]
    /\ UNCHANGED <<clock, converter, requests, freezeUntil, plugins>>

SetAccountFreezeTime(account, until) ==
    /\ freezeUntil' = [freezeUntil EXCEPT ![account] = until]
    /\ UNCHANGED <<clock, converter, balances, requests, plugins>>

-----------------------------------------------------------------------------
(* Operations of the holder of an account, who sends the transaction.      *)

TransferCoin(from, to, coin) ==
    /\ NotifyWithdraw(from, coin, now)
    /\ Transfer(from, to, coin)
    /\ UNCHANGED <<clock, converter, requests, freezeUntil, plugins>>

\* transferFrom of ERC-20 is not overridden: the holder has approved, and no
\* plugin is asked.
TransferFrom(from, to, coin) ==
    /\ Transfer(from, to, coin)
    /\ UNCHANGED <<clock, converter, requests, freezeUntil, plugins>>

\* pl_transferTo is meant for plugins, but anybody may give coin away with it:
\* the plugins of the payee are asked, and those of the payer are not.
TransferTo(from, to, coin) ==
    /\ Transfer(from, to, coin)
    /\ UNCHANGED <<clock, converter, requests, freezeUntil, plugins>>

-----------------------------------------------------------------------------
(* Requests that a client has signed; what Request adds to the history is  *)
(* when.                                                                   *)

\* Mutant: the time of the request is checked and not kept.
CertifiedUnkept(from, to, coin, fee, sender, at) ==
    /\ at > lastTx[from]
    /\ NotifyWithdraw(from, coin, at)
    /\ Unfrozen(from)
    /\ coin <= balances[from]
    /\ fee <= Transferred(from, to, coin)[from]
    /\ balances' = [Transferred(from, to, coin) EXCEPT ![from] = @ - fee,
                                                       ![sender] = @ + fee]
    /\ UNCHANGED <<clock, converter, lastTx, freezeUntil, plugins>>

\* Whoever submits the request has the fee, which plugins are not told of.
CertifiedTransfer(from, to, coin, fee, sender, at) ==
    /\ Signed(from, at)
    /\ NotifyWithdraw(from, coin, at)
    /\ Unfrozen(from)
    /\ coin <= balances[from]
    /\ fee <= Transferred(from, to, coin)[from]
    /\ balances' = [Transferred(from, to, coin) EXCEPT ![from] = @ - fee,
                                                       ![sender] = @ + fee]
    /\ UNCHANGED <<clock, converter, freezeUntil, plugins>>

\* A second attachment of the converter finds nothing left to modify.
Modified(from, amount, currency, at) ==
    IF plugins[from] = <<>> THEN Outcome(amount, currency, 0)
    ELSE ModifyTransfer(amount, currency, at)

UberTransfer(from, to, amount, currency, at, signedAt) ==
    LET final == Modified(from, amount, currency, at) IN
    /\ signedAt < now
    /\ Signed(from, signedAt)
    /\ plugins[from] # <<>> => CanModify(currency, at)
    /\ total[from] + final.registered <= MaxFiat
    /\ Register(from, to, at, final.registered)
    /\ \/ /\ final.amount = 0
          /\ UNCHANGED balances
       \/ /\ final.amount # 0
          /\ final.currency = Coin
          /\ NotifyWithdraw(from, final.amount, at)
          /\ Transfer(from, to, final.amount)
    /\ UNCHANGED <<clock, freezeUntil, plugins>>

AssignPlugin(client, mayWithdraw, at) ==
    /\ Signed(client, at)
    /\ Len(plugins[client]) < MaxPlugins
    /\ plugins' = [plugins EXCEPT ![client] = Append(@, mayWithdraw)]
    /\ UNCHANGED <<clock, converter, balances, freezeUntil>>

Without(s, i) == SubSeq(s, 1, i - 1) \o SubSeq(s, i + 1, Len(s))

\* Mutant: the plugin is not told.
RemoveSilently(client, i, at) ==
    /\ Signed(client, at)
    /\ plugins' = [plugins EXCEPT ![client] = Without(@, i)]
    /\ UNCHANGED <<clock, converter, balances, freezeUntil>>

RemovePlugin(client, i, at) ==
    /\ Signed(client, at)
    /\ UserDetached(client)
    /\ plugins' = [plugins EXCEPT ![client] = Without(@, i)]
    /\ UNCHANGED <<clock, transfers, balances, freezeUntil>>

-----------------------------------------------------------------------------
(* Operations that anybody may call.                                       *)

\* The first attachment of the converter is the one that counts.
MayWithdraw(client) == plugins[client] # <<>> /\ plugins[client][1]

\* Mutant: the transfer is taken off the record, although nothing is paid.
ProcessUnpaid(from, to, at) ==
    /\ at <= now
    /\ transfers[from][to][at] > 0
    /\ Priced(at)
    /\ Settled(from, to, at)
    /\ UNCHANGED <<clock, balances, requests, freezeUntil, plugins>>

\* Through pl_transferFrom, which asks the other plugins only.
ProcessPending(from, to, at) ==
    /\ at <= now
    /\ transfers[from][to][at] > 0
    /\ Priced(at)
    /\ MayWithdraw(from)
    /\ Transfer(from, to, ToCoin(transfers[from][to][at], at))
    /\ Settled(from, to, at)
    /\ UNCHANGED <<clock, requests, freezeUntil, plugins>>

\* A later block.
Tick == /\ now < MaxTime
        /\ now' = now + 1
        /\ UNCHANGED <<horizon, converter, balances, requests, freezeUntil, plugins>>

\* The oracle publishes the price of the moments up to the next one.
Publish == /\ horizon <= now
           /\ horizon' = horizon + 1
           /\ UNCHANGED <<now, converter, balances, requests, freezeUntil, plugins>>

Company ==
    \/ \E coin \in Amounts : MintCoins(coin) \/ BurnCoins(coin)
    \/ \E a \in Accounts, coin \in Amounts, at \in Times : ExactTransfer(a, coin, at)
    \/ \E a, b \in Accounts, coin \in Amounts : RevertTransfer(a, b, coin)
    \/ \E a, b \in Accounts, coin \in Amounts, fee \in 0 .. MaxFee :
          RunCloneTransfer(a, b, coin, fee)
    \/ \E a \in Suspects, t \in Freezes : SetAccountFreezeTime(a, t)

Holder == \E a, b \in Accounts, coin \in Amounts :
             \/ TransferCoin(a, b, coin)
             \/ TransferFrom(a, b, coin)
             \/ TransferTo(a, b, coin)

\* A request that the client signed at the given moment takes effect.
Take(c, signedAt) ==
    \/ \E a, sender \in Accounts, coin \in Amounts, fee \in 0 .. MaxFee :
          CertifiedTransfer(c, a, coin, fee, sender, signedAt)
    \/ \E a \in Accounts, coin \in Amounts, at \in Times :
          UberTransfer(c, a, coin, Coin, at, signedAt)
    \/ \E a \in Accounts, fiat \in 0 .. MaxFiat, at \in Times :
          UberTransfer(c, a, fiat, CAD, at, signedAt)
    \/ \E may \in BOOLEAN : AssignPlugin(c, may, signedAt)
    \/ \E i \in 1 .. Len(plugins[c]) : RemovePlugin(c, i, signedAt)

Request(c) == \E signedAt \in Times :
    /\ Take(c, signedAt)
    /\ accepted' = [accepted EXCEPT ![c] = Append(@, signedAt)]

Next == \/ Company
        \/ Holder
        \/ \E c \in Clients : Request(c)
        \/ \E c \in Clients, a \in Accounts, t \in Times : ProcessPending(c, a, t)
        \/ Tick
        \/ Publish

Spec == Init /\ [][Next]_vars

\* Blocks go on, the oracle keeps up, and whoever is owed processes what is due.
Fairness == /\ WF_vars(Tick)
            /\ WF_vars(Publish)
            /\ \A c \in Clients :
                  WF_vars(\E a \in Accounts, t \in Times : ProcessPending(c, a, t))

FairSpec == Spec /\ Fairness

-----------------------------------------------------------------------------
\* The variables have their types: no balance and no total is negative.
TypeOK ==
    /\ now \in Nat \ {0}
    /\ horizon \in Nat
    /\ transfers \in [Clients -> [Accounts -> [Times -> Nat]]]
    /\ total \in [Clients -> Nat]
    /\ balances \in [Accounts -> Nat]
    /\ lastTx \in [Clients -> Nat]
    /\ freezeUntil \in [Accounts -> Nat]
    /\ plugins \in [Clients -> Seq(BOOLEAN)]
    /\ accepted \in [Clients -> Seq(Times)]

Registered(client) ==
    MapThenSumSet(LAMBDA x : transfers[client][x[1]][x[2]], Accounts \X Times)

\* The total that withdrawals are held against, and that keeps the plugin
\* attached, is the sum of the transfers that are registered; so processing
\* one of them never fails for want of total.
TotalMatches == \A c \in Clients : total[c] = Registered(c)

\* A client with transfers pending has the converter attached: without it they
\* could not be paid, and nothing would hold on to the coin.
PendingAttached == \A c \in Clients : total[c] > 0 => plugins[c] # <<>>

\* No signed request takes effect twice, or after one that was signed later,
\* although anybody may submit any of them at any time and again: the requests
\* of a client that took effect were signed one after the other.
RequestsOnce == \A c \in Clients : \A i, j \in DOMAIN accepted[c] :
    i < j => accepted[c][i] < accepted[c][j]

\* Nothing that clients, brokers or the company do revokes a registered
\* transfer, or changes what its payee gets.
Promised == INSTANCE Promises WITH pending <- transfers
PromisesKept == Promised!Spec

\* What the payer lacks, if it cannot pay what is registered.
Unable(from, to, at) ==
    \/ ~ MayWithdraw(from)
    \/ ~ Unfrozen(from)
    \/ balances[from] < ToCoin(transfers[from][to][at], at)

\* A registered transfer is paid, unless its payer is unable again and again.
DuePaid == \A c \in Clients, a \in Accounts, t \in Times :
    []<>(transfers[c][a][t] = 0 \/ Unable(c, a, t))
=============================================================================
