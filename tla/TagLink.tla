------------------------------- MODULE TagLink -------------------------------
(***************************************************************************)
(* The bits that cosim/include/common/bsg_tag_bitbang.h writes to one CSR, *)
(* and what the tag master on the other side makes of them.  A message is  *)
(* a start bit, the length of the payload, data_not_reset, the client, the *)
(* payload and an end bit, numbers with the low bit first.  The master     *)
(* (bsg_tag_master, outside this repository) follows messages bit by bit   *)
(* and starts over after ResetZeros zeros in a row.                        *)
(***************************************************************************)
EXTENDS Integers, Sequences

CONSTANTS
  NumClients, MaxLen,   \* what the driver is constructed with
  ResetZeros            \* zeros after which the master starts over

\* Two to the k, a function so that proofs can reason about this module.
Pow2 == [k \in 0 .. 30 |-> 2 ^ k]

ASSUME TagLinkAssumption == NumClients \in 1 .. Pow2[30] /\ MaxLen \in Nat

\* The least k with x <= 2^k, and 1 at least.
safe_clog2(x) ==
  CHOOSE k \in 1 .. 30 : /\ (2 * x - 1) \div Pow2[k] <= 1
                         /\ \A j \in 1 .. k - 1 : (2 * x - 1) \div Pow2[j] > 1

id_len == safe_clog2(NumClients)

Bits(value, n) == [i \in 1 .. n |-> (value \div Pow2[i - 1]) % 2]

Zeros(n) == [i \in 1 .. n |-> 0]

write_client(client, data_not_reset, payload) ==
  <<1>> \o Bits(client.width, MaxLen) \o <<data_not_reset>>
    \o Bits(client.id, id_len) \o Bits(payload, client.width) \o <<0>>

set_client(client, payload) == write_client(client, 1, payload)

reset_client(client) == write_client(client, 0, 1)

\* Mutant of reset_master: too few zeros for a master in mid-message.
reset_master_short == <<1>> \o Zeros(5)
reset_master == <<1>> \o Zeros(100)

idle(cycles) == Zeros(cycles)

-----------------------------------------------------------------------------
(* The master: its mode, the bits of the message so far, the zeros in a row *)

Masters == [mode : {"lost", "idle", "header", "payload"},
            bits : Seq({0, 1}), zeros : 0 .. ResetZeros]

HeaderLen == MaxLen + 1 + id_len

Number(bits, from, n) ==
  LET sum[i \in 0 .. n] ==
        IF i = 0 THEN 0 ELSE sum[i - 1] + bits[from + i - 1] * Pow2[i - 1]
  IN sum[n]

Width(bits) == Number(bits, 1, MaxLen)
DataNotReset(bits) == bits[MaxLen + 1]
Client(bits) == Number(bits, MaxLen + 2, id_len)
Payload(bits) == Number(bits, HeaderLen + 1, Width(bits))

\* The bits are a whole message.
Complete(bits) ==
  Len(bits) >= HeaderLen /\ Len(bits) = HeaderLen + Width(bits)

\* The message that ends with bit, if one does.
Delivers(master, bit) ==
  master.mode \in {"header", "payload"} /\ Complete(Append(master.bits, bit))

Shifted(master, bit) ==
  LET zeros == IF bit = 1 THEN 0
               ELSE IF master.zeros < ResetZeros THEN master.zeros + 1
               ELSE ResetZeros
      bits == Append(master.bits, bit)
      fresh == [mode |-> "idle", bits |-> << >>, zeros |-> zeros]
  IN IF zeros = ResetZeros \/ Delivers(master, bit) THEN fresh
     ELSE CASE master.mode = "idle" ->
                 [fresh EXCEPT !.mode = IF bit = 1 THEN "header" ELSE "idle"]
            [] master.mode = "lost" -> [master EXCEPT !.zeros = zeros]
            [] OTHER ->
                 [mode |-> IF Len(bits) >= HeaderLen THEN "payload" ELSE "header",
                  bits |-> bits, zeros |-> zeros]
=============================================================================
