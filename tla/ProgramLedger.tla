---------------------------- MODULE ProgramLedger ----------------------------
(***************************************************************************)
(* What the native programs do to the accounts over any sequence of        *)
(* transactions.  The node applies transactions one at a time and each as  *)
(* a whole (SerialLedger, which BankingStage implements), so a step is one *)
(* transaction, run by the code of BankExecution on the accounts as the    *)
(* ones before it left them; a client may send it any number of times.     *)
(***************************************************************************)
EXTENDS BankExecution

CONSTANTS Workload,      \* Workload[c]: the transactions that clients of kind c send
          InitAccounts   \* the store when the node starts

VARIABLES ledger,        \* the account store
          clients,       \* the kind of clients in this behaviour
          recreated      \* history: an account that held data has been created again

vars == <<ledger, clients, recreated>>

Init ==
    /\ ledger = InitAccounts
    /\ clients \in DOMAIN Workload
    /\ recreated = FALSE

\* The keys at these places of the instruction.
Named(ix, places) == {ix.accounts[i].pubkey : i \in places \cap DOMAIN ix.accounts}

\* The accounts the instruction creates, itself or through the loader.
Creates(ix) ==
    IF /\ ix.data.variant = 2
       /\ ix.program_id \in {SYSTEM_PROGRAM_ID, BPF_LOADER_UPGRADEABLE_PROGRAM_ID}
    THEN Named(ix, {2}) ELSE {}

Created(tx) == UNION {Creates(ix) : ix \in ToSet(tx.instructions)}

Exists(key) == Load(ledger, key).lamports > 0 \/ Load(ledger, key).data # Empty

\* A transaction that fails leaves the accounts as they are.  The system program takes
\* any account for "new account" and wipes what it held.
Run(tx) ==
    /\ LET done == RunAlone(tx, ledger)
       IN  done.result = "Ok" /\ ledger' = done.store
    /\ recreated' = (recreated \/ \E key \in Created(tx) : Load(ledger, key).data # Empty)
    /\ UNCHANGED clients

Next == \E tx \in Workload[clients] : Run(tx)

Spec == Init /\ [][Next]_vars

Instructions(txs) == UNION {ToSet(tx.instructions) : tx \in txs}
InstructionsOf(program, txs) == {ix \in Instructions(txs) : ix.program_id = program}

\* The accounts that token instructions write, those that loader instructions do, and
\* among the latter the ones that become programs.
TokenKeys(txs) ==
    UNION {Named(ix, IF ix.data.variant \in {0, 1} THEN {2, 3} ELSE {1}) :
              ix \in InstructionsOf(TOKEN_PROGRAM_ID, txs)}
LoaderKeys(txs) ==
    UNION {Named(ix, IF ix.data.variant = 2 THEN {2, 3, 4} ELSE {1}) :
              ix \in InstructionsOf(BPF_LOADER_UPGRADEABLE_PROGRAM_ID, txs)}
ProgramKeys(txs) ==
    UNION {Named(ix, IF ix.data.variant = 2 THEN {3} ELSE {}) :
              ix \in InstructionsOf(BPF_LOADER_UPGRADEABLE_PROGRAM_ID, txs)}

-----------------------------------------------------------------------------
IsInitialized(data, kind) == data.kind = kind /\ data.is_initialized

Mints == {key \in DOMAIN ledger : IsInitialized(ledger[key].data, "Mint")}
TokenAccountsOf(mint) ==
    {key \in DOMAIN ledger :
        /\ IsInitialized(ledger[key].data, "TokenAccount")
        /\ ledger[key].data.mint = mint}

\* The state of the upgradeable loader in an account, if there is one.
Holds(account, tag) == account.data.kind = "Loader" /\ account.data.state.tag = tag

\* Balances are u64, every kind of data has its length, and what lies in a token or
\* loader account is of the program that owns it.
TypeOK ==
    \A key \in DOMAIN ledger :
        LET account == ledger[key]
            data    == account.data
        IN  /\ account.lamports \in 0..U64_MAX
            /\ account.executable \in BOOLEAN
            /\ data.kind = "Mint" => data.supply \in 0..U64_MAX
            /\ data.kind = "TokenAccount" =>
                  data.amount \in 0..U64_MAX /\ account.owner = TOKEN_PROGRAM_ID
            /\ data.kind = "Loader" =>
                  /\ data.len >= Loader!serialized_size(data.state)
                  /\ Len(data.body) =
                        saturating_sub(data.len, Loader!MetadataLen(data.state))

\* As long as no account is created a second time, the tokens of a mint are what its
\* supply says, over any order of mints and transfers between its accounts, including
\* transfers of an account to itself, mints and transfers that mix two mints, and
\* several instructions in a row.  Creating a token account again wipes its balance and
\* leaves the supply.  At U64_MAX the supply and the balances saturate separately and
\* nothing is said.
SupplyIsSum ==
    ~recreated => \A mint \in Mints :
        ledger[mint].data.supply < U64_MAX =>
            SumFunction([key \in TokenAccountsOf(mint) |-> ledger[key].data.amount])
                = ledger[mint].data.supply

\* No program makes or loses lamports: creating, closing and deploying accounts
\* moves them, also when one account is named twice in an instruction.
LamportsConserved == Lamports(ledger) = Lamports(InitAccounts)

\* What was initialized as a mint or a token account is still that, and of the same
\* authority, or mint and owner; a supply has not shrunk.
StaysInitialized(old, new) ==
    /\ IsInitialized(old, "Mint") =>
          /\ IsInitialized(new, "Mint")
          /\ new.mint_authority = old.mint_authority
          /\ new.supply >= old.supply
    /\ IsInitialized(old, "TokenAccount") =>
          /\ IsInitialized(new, "TokenAccount")
          /\ new.mint = old.mint
          /\ new.owner = old.owner

\* Nothing initializes a mint or a token account a second time, except after a
\* transaction that creates the account again, or hands it to the loader.
InitializedOnce ==
    [][\A key \in DOMAIN ledger :
          \/ StaysInitialized(ledger[key].data, ledger'[key].data)
          \/ \E tx \in Workload[clients] :
                key \in Created(tx) \cup LoaderKeys({tx}) /\ Run(tx)]_vars

\* Once its authority is None nobody can write a buffer or a program's data, or become
\* its authority again: only close it, create the account again, or deploy a program
\* whose pointer goes over it.
ImmutableForever ==
    [][\A key \in DOMAIN ledger :
          \/ /\ Holds(ledger[key], "Buffer") \/ Holds(ledger[key], "ProgramData")
             /\ ledger[key].data.state.authority_address = Loader!NoKey
             => ledger'[key].data \in {ledger[key].data, Empty}
          \/ \E tx \in Workload[clients] :
                key \in Created(tx) \cup ProgramKeys({tx}) /\ Run(tx)]_vars

\* When program data appears, a program account that belongs to the loader and is
\* executable points to it, and it holds what followed the 37 bytes of a buffer's
\* metadata in an account that the same step used up.  The code takes any account that
\* is long enough for a buffer, whatever it holds.
DeployedWhole ==
    [][\A key \in DOMAIN ledger' :
          Holds(ledger'[key], "ProgramData") /\ ~Holds(Load(ledger, key), "ProgramData") =>
              /\ \E program \in DOMAIN ledger' :
                    /\ Holds(ledger'[program], "Program")
                    /\ ledger'[program].data.state.programdata_address = key
                    /\ ledger'[program].executable
                    /\ ledger'[program].owner = BPF_LOADER_UPGRADEABLE_PROGRAM_ID
              /\ \E buffer \in DOMAIN ledger :
                    /\ ledger[buffer].data.len >= Loader!size_of_buffer_metadata
                    /\ IsPrefix(Loader!BodyFrom(Loader!size_of_buffer_metadata,
                                                ledger[buffer].data),
                                ledger'[key].data.body)
                    /\ ledger'[buffer].data = Empty]_vars

\* readme.md lists "cpi (Cross-Program Invocation) with `invoke_context`" and the
\* token program's `SetAuthority`: on accounts that exist, a well-formed instruction
\* is not refused as InvalidInstructionData.
WellFormedDecodes ==
    \A tx \in Workload[clients] :
        (\A meta \in Metas(tx) : meta.is_writable => Exists(meta.pubkey))
            => RunAlone(tx, ledger).result # "InvalidInstructionData"

-----------------------------------------------------------------------------
\* What the theorems about this module ask of clients; nothing in the code sees to it.

\* Nothing is lost, and the node's lamports fit a u64.
LosslessClients ==
    /\ \A c \in DOMAIN Workload : \A tx \in Workload[c] : Lossless(tx)
    /\ IsGenesis(InitAccounts)

\* Accounts for mints and tokens are created for the token program and stay with it.
TokenOwned(txs) ==
    \A ix \in InstructionsOf(SYSTEM_PROGRAM_ID, txs) :
        /\ ix.data.variant = 1 /\ Named(ix, {1}) \cap TokenKeys(txs) # {} =>
              ix.data.args[1] = TOKEN_PROGRAM_ID
        /\ Creates(ix) \cap TokenKeys(txs) # {} => ix.data.args[3] = TOKEN_PROGRAM_ID

\* The metas that the instruction enums document for what is written, next to those of
\* MarksDrained: both accounts of a token transfer, the two that Deploy fills.
MarksWritten(ix) ==
    /\ ix.program_id = TOKEN_PROGRAM_ID /\ ix.data.variant = 1 /\ Len(ix.accounts) >= 3 =>
          ix.accounts[2].is_writable /\ ix.accounts[3].is_writable
    /\ ix.program_id = BPF_LOADER_UPGRADEABLE_PROGRAM_ID /\ ix.data.variant = 2 /\ Len(ix.accounts) >= 3 =>
          ix.accounts[2].is_writable /\ ix.accounts[3].is_writable

\* Keys are keys and bytes are bytes.
Byte == 0..255 \cup {Loader!OPAQUE}
WellTyped(ix) ==
    /\ \A i \in DOMAIN ix.accounts : ix.accounts[i].pubkey # Loader!NoKey
    /\ ix.program_id = BPF_LOADER_UPGRADEABLE_PROGRAM_ID /\ ix.data.variant = 1 =>
          ix.data.args[1] \in Nat /\ ix.data.args[2] \in Seq(Byte)

Tidy(txs) ==
    /\ TokenOwned(txs)
    /\ \A ix \in Instructions(txs) : MarksWritten(ix) /\ WellTyped(ix)

\* Clients find nothing in the accounts there are.
TidyClients ==
    /\ \A c \in DOMAIN Workload : Tidy(Workload[c])
    /\ \A key \in DOMAIN InitAccounts :
          InitAccounts[key].data = Empty /\ InitAccounts[key].executable \in BOOLEAN

\* Token accounts are no accounts of the loader, whose Close and Deploy would wipe them,
\* and the key that zeros stand for is none either.
KeysApart(txs) ==
    /\ TokenKeys(txs) \cap LoaderKeys(txs) = {}
    /\ SYSTEM_PROGRAM_ID \notin TokenKeys(txs)

\* A transaction creates an account once.
CreatesApart(tx) ==
    \A m, n \in DOMAIN tx.instructions :
        m # n => Creates(tx.instructions[m]) \cap Creates(tx.instructions[n]) = {}

ClientsApart ==
    \A c \in DOMAIN Workload :
        KeysApart(Workload[c]) /\ \A tx \in Workload[c] : CreatesApart(tx)

\* A deployment is a transaction of its own.
DeploysAlone(tx) ==
    \A n \in DOMAIN tx.instructions :
        /\ tx.instructions[n].program_id = BPF_LOADER_UPGRADEABLE_PROGRAM_ID
        /\ tx.instructions[n].data.variant = 2
        => Len(tx.instructions) = 1
DeployingClients == \A c \in DOMAIN Workload : \A tx \in Workload[c] : DeploysAlone(tx)
=============================================================================
