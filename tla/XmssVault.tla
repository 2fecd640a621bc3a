---- MODULE XmssVault ----
(***************************************************************************)
(* The vault program (programs/xmss-vault/src) with the bridge program it  *)
(* calls.  A vault is a Merkle tree of one-time keys: the instruction that *)
(* spends from it names a leaf, carries a signature of that leaf's key and *)
(* moves leaf_index past it.                                               *)
(*                                                                         *)
(* An instruction whose signature or proof does not verify fails and       *)
(* changes nothing; that wots_verify and verify_merkle_proof accept what   *)
(* the key of the named leaf signed for this message, and nothing else, is *)
(* taken from the two schemes.  leaf_index is a u16: LeafBits is 16.       *)
(***************************************************************************)
EXTENDS SoqtecBridge, Sequences

CONSTANTS
    Vaults,         \* vault PDAs, one per Merkle root
    Depths,         \* tree_depth's possible values, 1 .. 20 in the code
    LeafBits        \* the width of leaf_index

ASSUME VaultAssumption ==
    /\ Vaults \subseteq Owners
    /\ Depths \subseteq Nat \ {0}
    /\ LeafBits \in Nat \ {0}

(* A tree of depth d has this many leaves.                                 *)
Leaves(d) == 2 ^ d

(* What the provers do not know of powers.                                 *)
ASSUME LeavesAssumption ==
    /\ Leaves(LeafBits) \in Nat \ {0}
    /\ \A d \in Depths : /\ Leaves(d) \in Nat
                         /\ d >= LeafBits => Leaves(LeafBits) <= Leaves(d)

VARIABLES
    vault,          \* XmssVault accounts; `active' is false until they are opened
    signed          \* history: the leaves whose signature each vault accepted

vars == <<bridgeVars, vault, signed>>

(* 1u16.checked_shl(tree_depth).unwrap_or(u16::MAX)                        *)
MaxSignatures(d) == IF d < LeafBits THEN Leaves(d) ELSE Leaves(LeafBits) - 1

IsExhausted(v) == vault[v].leaf >= MaxSignatures(vault[v].depth)

Init ==
    /\ BridgeInit
    /\ vault = [v \in Vaults |-> [active |-> FALSE, leaf |-> 0, depth |-> 0,
                                  mint |-> NoMint, bridged |-> FALSE,
                                  operations |-> 0]]
    /\ signed = [v \in Vaults |-> <<>>]

(* open_xmss_vault: once per root; makes the vault's token account, which  *)
(* nobody has made before it.  bridged: the bridge authority given is the  *)
(* bridge's account.                                                       *)
OpenXmssVault(v, d, m, bridged) ==
    /\ ~vault[v].active
    /\ accounts' = accounts \cup {<<v, m>>}
    /\ vault' = [vault EXCEPT ![v] = [active |-> TRUE, leaf |-> 0, depth |-> d,
                                      mint |-> m, bridged |-> bridged,
                                      operations |-> 0]]
    /\ UNCHANGED <<bridge, processed, held, handed, epoch, minted, spent, owed, outside,
                   signed>>

(* Mutant: the index does not move, only the statistics.                   *)
UsedAgain(r) == [r EXCEPT !.operations = @ + 1]

(* leaf_index and total_operations after a use.                            *)
Used(r) == [r EXCEPT !.leaf = @ + 1, !.operations = @ + 1]

(* The checks and the bookkeeping of an instruction signed by leaf i.      *)
Sign(v, i) ==
    /\ vault[v].active
    /\ ~IsExhausted(v)
    /\ i = vault[v].leaf
    /\ vault' = [vault EXCEPT ![v] = Used(@)]
    /\ signed' = [signed EXCEPT ![v] = Append(@, i)]

(* token::transfer between accounts of one mint.                           *)
Transfer(from, to, m, a) ==
    /\ {<<from, m>>, <<to, m>>} \subseteq accounts
    /\ held[from, m] >= a
    /\ held' = [held EXCEPT ![<<from, m>>] = @ - a, ![<<to, m>>] = @ + a]
    /\ UNCHANGED <<bridge, processed, accounts, handed, epoch, minted, spent, owed, outside>>

WithdrawFromVault(v, i, to, a) ==
    /\ Sign(v, i)
    /\ Transfer(v, to, vault[v].mint, a)

(* Anyone may deposit, into an exhausted vault too.                        *)
DepositToVault(v, from, a) ==
    /\ vault[v].active
    /\ Transfer(from, v, vault[v].mint, a)
    /\ UNCHANGED <<vault, signed>>

(* The burn is the bridge's own instruction, signed by the vault's PDA, in *)
(* one transaction with the leaf's use.                                    *)
BridgeOutFromVault(v, i, a) ==
    /\ vault[v].bridged
    /\ vault[v].mint = bridge.mint
    /\ Sign(v, i)
    /\ Burn(v, a)

VaultNext ==
    \E v \in Vaults :
        \/ \E d \in Depths, m \in Mints, b \in BOOLEAN : OpenXmssVault(v, d, m, b)
        \/ \E i \in 0 .. Leaves(LeafBits) - 1, to \in Owners, a \in Amounts :
               WithdrawFromVault(v, i, to, a)
        \/ \E u \in Users, a \in Amounts : DepositToVault(v, u, a)
        \/ \E i \in 0 .. Leaves(LeafBits) - 1, a \in Amounts :
               BridgeOutFromVault(v, i, a)

Next == (BridgeNext /\ UNCHANGED <<vault, signed>>) \/ VaultNext

Spec == Init /\ [][Next]_vars

(* A leaf signs once and is a leaf of the tree: whatever the order of      *)
(* withdrawals and bridge-outs, no two accepted signatures of a vault are  *)
(* of one leaf, and none is past the tree's last (state.rs:5-7,            *)
(* lib.rs:100-101, 172, 326).                                              *)
LeafSignsOnce ==
    \A v \in Vaults : \A i, j \in 1 .. Len(signed[v]) :
        /\ i # j => signed[v][i] # signed[v][j]
        /\ signed[v][i] < Leaves(vault[v].depth)

====
