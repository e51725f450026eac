------------------------------ MODULE NetParam -------------------------------
(* The table of network and calibration parameters in flash                  *)
(* (func/net_param_intf/net_param.c): a TLV header, then items, each a head  *)
(* (type, length) and a value.  save_info_item builds the new table in       *)
(* memory, erases the sectors and writes the table in chunks; the power may  *)
(* fail in between.  Flash is modelled byte by byte because items are found  *)
(* by walking from head to head, also over bytes that were never written.    *)
EXTENDS Integers, FiniteSets

CONSTANTS
    Items,          \* the items in use, of those that the code saves
    Values,         \* bytes of which a saved value consists
    FlashSize,      \* bytes of flash modelled
    Sector,         \* bytes of a flash sector (4096)
    Saves,          \* bound: saves
    PowerFailures   \* bound: power failures

HeadSize == 8       \* sizeof(TLV_HEADER_ST), sizeof(INFO_ITEM_ST)
Chunk == 32         \* bytes flash_write_data programs at a time
Erased == 255       \* a byte after the sector was erased
Absent == -1        \* get_info_item: not found
Torn == -2          \* get_info_item: found, but the bytes are not those of one value
Overrun == -3       \* get_info_item: more bytes copied than the caller's variable has

ASSUME NetParamAssumption ==
    /\ Items \subseteq {"mac", "tssi", "dist", "mode", "charge", "tssi_b"}
    /\ Values \subseteq 1 .. 15
    /\ FlashSize \in Nat /\ FlashSize >= 84   \* a table with every item fits the partition
    /\ Sector \in Nat \ {0} /\ Saves \in Nat /\ PowerFailures \in Nat

VARIABLES
    flash,          \* the partition
    pc,             \* "idle", "erase", "write", or "failed" after a power failure
    buf,            \* wrbuf, the table to write
    written,        \* bytes of buf that are in flash
    request,        \* history: the item and the value of the save
    saves, failures

tableVars == <<flash, pc, buf, written, request, saves, failures>>

\* A byte; behind what is modelled flash is erased.
ByteAt(mem, a) == IF a \in DOMAIN mem THEN mem[a] ELSE Erased

\* A UINT32 read at a, as the signed number with the same bits: sums with it are
\* the sums modulo 2^32, and a negative address is one behind every table.
UINT32(mem, a) ==
    LET top == ByteAt(mem, a + 3) IN
    (IF top >= 128 THEN top - 256 ELSE top) * 16777216
      + ByteAt(mem, a + 2) * 65536 + ByteAt(mem, a + 1) * 256 + ByteAt(mem, a)

\* NET_INFO_ITEM: the four bytes of a type are equal.
TypeByte(i) ==
    IF i = "mac" THEN 68 ELSE IF i = "tssi" THEN 119 ELSE IF i = "dist" THEN 136
    ELSE IF i = "mode" THEN 153 ELSE IF i = "charge" THEN 170 ELSE 187

\* INFO_TLV_HEADER, 0x00564c54.
Magic == <<84, 76, 86, 0>>

\* Bytes of an item's value, and those that carry it (a MAC address has six).
ValueLen(i) == IF i = "mac" THEN 8 ELSE 4
info_item_len(i) == HeadSize + ValueLen(i)
Carrying(i) == IF i = "mac" THEN 6 ELSE 4
-----------------------------------------------------------------------------
(* Reading. *)

\* search_info_tbl: is there a table, and how long is it?
HasTable(mem) == \A k \in 0 .. 3 : ByteAt(mem, k) = Magic[k + 1]
TableLen(mem) == IF HasTable(mem) THEN UINT32(mem, 4) + HeadSize ELSE 0

IsHeadOf(mem, a, i) == \A k \in 0 .. 3 : ByteAt(mem, a + k) = TypeByte(i)

\* Where the item's head is, or 0.
search_info_item(mem, i) ==
    LET end == HeadSize + UINT32(mem, 4)
        walk[a \in Nat] ==
            IF a >= end THEN 0
            ELSE IF IsHeadOf(mem, a, i) THEN a
            ELSE LET next == a + HeadSize + UINT32(mem, a + 4) IN
                 IF next < 0 THEN 0 ELSE walk[next]
    IN walk[HeadSize]

\* As many bytes are copied as the item's head says, not as many as the item has;
\* a length read as negative is one of more than 2^31 bytes.
Fits(len, i) == 0 <= len /\ len <= ValueLen(i)

\* What the caller reads: one value, or Absent, or bytes of several origins, or more
\* than it has room for.
get_info_item(mem, i) ==
    LET read == [a \in Nat |->
            LET len == UINT32(mem, a + 4)
                bytes == {ByteAt(mem, a + HeadSize + k) : k \in 0 .. Carrying(i) - 1}
            IN IF a = 0 THEN Absent
               ELSE IF ~Fits(len, i) THEN Overrun
               ELSE IF len >= Carrying(i) /\ Cardinality(bytes) = 1 THEN CHOOSE b \in bytes : TRUE
               ELSE Torn]
    IN IF HasTable(mem) THEN read[search_info_item(mem, i)] ELSE Absent
-----------------------------------------------------------------------------
(* Saving. *)

\* (mutant) an appended item is not counted in the header
HeadLenItem(tot, i) ==
    IF tot = HeadSize + info_item_len(i) THEN tot - HeadSize ELSE tot - HeadSize - info_item_len(i)

\* The length in the TLV header.
HeadLen(tot, i) == tot - HeadSize

\* Byte k of the TLV header, and of an item with its head.
HeaderByte(len, k) ==
    IF k < 4 THEN Magic[k + 1] ELSE IF k = 4 THEN len % 256 ELSE IF k = 5 THEN len \div 256 ELSE 0
ItemByte(i, v, k) ==
    IF k < 4 THEN TypeByte(i) ELSE IF k = 4 THEN ValueLen(i) ELSE IF k < HeadSize THEN 0 ELSE v

\* The table with the item replaced in place, or appended, or alone.
NewTable(mem, i, v) ==
    LET has == HasTable(mem)
        found == IF has THEN search_info_item(mem, i) ELSE 0
        old == TableLen(mem)
        off == IF ~has THEN HeadSize ELSE IF found = 0 THEN old ELSE found
        tot == IF ~has THEN HeadSize + info_item_len(i)
               ELSE IF found = 0 THEN old + info_item_len(i) ELSE old
    IN [a \in 0 .. tot - 1 |->
          IF a < HeadSize THEN HeaderByte(HeadLen(tot, i), a)
          ELSE IF a \in off .. off + HeadSize + Carrying(i) - 1 THEN ItemByte(i, v, a - off)
          ELSE IF a < old THEN ByteAt(mem, a) ELSE 0]

TableInit ==
    /\ flash = [a \in 0 .. FlashSize - 1 |-> Erased]
    /\ pc = "idle" /\ buf = <<>> /\ written = 0
    /\ request = <<>> /\ saves = 0 /\ failures = 0

\* save_info_item up to the erasure: everything happens in memory.
save_info_item(i, v) ==
    /\ pc \in {"idle", "failed"} /\ saves < Saves
    /\ saves' = saves + 1 /\ request' = <<i, v>>
    /\ buf' = NewTable(flash, i, v)
    /\ pc' = "erase"
    /\ written' = 0
    /\ UNCHANGED <<flash, failures>>

\* bk_flash_erase: the sectors the table takes.
bk_flash_erase ==
    /\ pc = "erase"
    /\ LET last == (Cardinality(DOMAIN buf) - 1) \div Sector IN
       flash' = [a \in DOMAIN flash |-> IF a \div Sector <= last THEN Erased ELSE flash[a]]
    /\ pc' = "write"
    /\ UNCHANGED <<buf, written, request, saves, failures>>

\* (mutant) the table is written from its end
ChunkDown == {a \in DOMAIN buf : Cardinality(DOMAIN buf) - written - Chunk <= a
                                 /\ a < Cardinality(DOMAIN buf) - written}

\* The bytes programmed next.
NextChunk == {a \in DOMAIN buf : written <= a /\ a < written + Chunk}

WriteDone(w) == w = Cardinality(DOMAIN buf)

\* bk_flash_write, one chunk.
bk_flash_write ==
    /\ pc = "write"
    /\ LET chunk == NextChunk IN
       flash' = [a \in DOMAIN flash |-> IF a \in chunk THEN buf[a] ELSE flash[a]]
    /\ written' = written + Cardinality(NextChunk)
    /\ pc' = IF WriteDone(written') THEN "idle" ELSE "write"
    /\ UNCHANGED <<buf, request, saves, failures>>

\* Power fails; buf stays behind in the model to compare with.
PowerFail ==
    /\ pc \in {"erase", "write"} /\ failures < PowerFailures
    /\ failures' = failures + 1
    /\ pc' = "failed"
    /\ UNCHANGED <<flash, buf, written, request, saves>>

TableNext ==
    \/ \E i \in Items, v \in Values : save_info_item(i, v)
    \/ bk_flash_erase \/ bk_flash_write \/ PowerFail

TableSpec == TableInit /\ [][TableNext]_tableVars
-----------------------------------------------------------------------------
TableTypeOK ==
    /\ flash \in [0 .. FlashSize - 1 -> 0 .. 255]
    /\ pc \in {"idle", "erase", "write", "failed"}
    /\ written \in 0 .. Cardinality(DOMAIN buf)
    /\ pc = "write" => NextChunk # {}
    /\ saves \in 0 .. Saves /\ failures \in 0 .. PowerFailures

\* A save takes effect when its table has been built.
Store == INSTANCE ParamStore WITH
    params <- IF pc \in {"erase", "write"} THEN [i \in Items |-> get_info_item(buf, i)]
              ELSE [i \in Items |-> get_info_item(flash, i)],
    failed <- failures > 0

\* As long as the power does not fail, the table is a map: a save changes exactly
\* one item, wherever it is in the table, and reading finds it.
ImplementsParamStore == Store!Spec

\* A power failure in the middle of a save loses items, but reading never returns a
\* value nobody saved.  What it returns depends on how much of the item is in the
\* part already written: all of it, and it is read as saved; a part of the value, and
\* erased bytes come with it; the head's type without its length, and the length is
\* taken for 2^32 - 1; less, and it is not found.  A head is cut so where the address
\* 4 bytes into it divides by Chunk: for the MAC address and three more items before
\* it, at address 64.
PrefixSurvives ==
    (pc = "failed" /\ written > 0) =>
        \A i \in Items :
            LET a == search_info_item(buf, i)
                got == get_info_item(flash, i)
            IN IF a = 0 \/ written < a + 4 THEN got = Absent
               ELSE IF written < a + HeadSize THEN got = Overrun
               ELSE IF written < a + HeadSize + Carrying(i) THEN got \in {Torn, Erased}
               ELSE got = get_info_item(buf, i)

\* "assume info cfg tbl size is less than 4k": the table to write fits a sector.
TableFits == pc = "erase" => Cardinality(DOMAIN buf) < Sector
=============================================================================
