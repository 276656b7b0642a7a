---------------------------- MODULE MbFunctions ----------------------------
(***************************************************************************)
(* The Modbus data model of ch04-13/modbus_s: the function handlers of     *)
(* freemodbus/functions, the register callbacks of main.cpp that they      *)
(* call, and the bit operations of mbutils.c below them.                   *)
(*                                                                         *)
(* A bit buffer is the set of the numbers of its bits that are 1, bit i of *)
(* byte b being number W * b + i; a byte of a PDU is a set of bits 0..W-1. *)
(* Register values are not taken apart.  A request is a record: the        *)
(* function, the PDU length eMBPoll passes, and the fields it carries.     *)
(***************************************************************************)
EXTENDS Integers, Sequences

CONSTANTS
  W,             \* BITS_UCHAR
  NCoils,        \* REG_COIL_NREGS, a multiple of W
  NRegs,         \* REG_HOLDING_NREGS
  Words,         \* values of a register
  InitCoils, InitHolding,  \* what the buffers hold at start
  Discrete, Input,         \* the read-only buffers
  Outputs,       \* coils that switch a light or the beeper
  Ushort, Uchar, \* 2^16, 2^8
  CoilReadMax, CoilWriteMax, RegReadMax, RegWriteMax, \* MB_PDU_FUNC_..._MAX
  Requests       \* the PDUs masters send

Bits(n)  == 0..(n - 1)
Byte     == SUBSET Bits(W)
Field    == Bits(Ushort)
Lights   == Outputs \cap Bits(NCoils)

ReadFn  == {"READ_COILS", "READ_DISCRETE_INPUTS", "READ_HOLDING_REGISTER", "READ_INPUT_REGISTER"}

Request ==
  [fn : ReadFn, len : Nat, addr : Field, cnt : Field]
    \cup [fn : {"WRITE_SINGLE_COIL"}, len : Nat, addr : Field, value : {"on", "off", "bad"}]
    \cup [fn : {"WRITE_REGISTER"}, len : Nat, addr : Field, value : Words]
    \cup [fn : {"WRITE_MULTIPLE_COILS"}, len : Nat, addr : Field, cnt : Field,
          bytes : Bits(Uchar), data : Seq(Byte)]
    \cup [fn : {"WRITE_MULTIPLE_REGISTERS"}, len : Nat, addr : Field, cnt : Field,
          bytes : Bits(Uchar), data : Seq(Words)]
    \cup [fn : {"READWRITE_MULTIPLE_REGISTERS"}, len : Nat, raddr : Field, rcnt : Field,
          addr : Field, cnt : Field, bytes : Bits(Uchar), data : Seq(Words)]

ASSUME FunctionsAssumption ==
  /\ W \in Nat \ {0} /\ NCoils \in Nat /\ NRegs \in Nat
  /\ InitCoils \subseteq Bits(NCoils) /\ Discrete \subseteq Bits(NCoils)
  /\ InitHolding \in [Bits(NRegs) -> Words] /\ Input \in [Bits(NRegs) -> Words]
  /\ Ushort \in Nat /\ Uchar \in Nat
  /\ Ushort > NCoils + 1 /\ Ushort > NRegs + 1 /\ Uchar > 1
  /\ \A m \in {CoilReadMax, CoilWriteMax, RegReadMax, RegWriteMax} : m \in Nat
  /\ Requests \subseteq Request

VARIABLES
  usRegCoilBuf,     \* the coils, and the byte that follows them in memory
  usRegHoldingBuf,
  lights,           \* what coil_hardware_process has switched last: "on", "off" or "unset"
  request, reply    \* the last PDU executed and its answer

vars == <<usRegCoilBuf, usRegHoldingBuf, lights, request, reply>>

NoRequest == [fn |-> "none"]

Init ==
  /\ usRegCoilBuf = InitCoils
  /\ usRegHoldingBuf = InitHolding
  /\ lights = [c \in Lights |-> "unset"]
  /\ request = NoRequest
  /\ reply = [ex |-> "NONE", data |-> <<>>]

----------------------------------------------------------------------------
(* mbutils.c                                                               *)

(* The mask clears n bits; the value is or-ed in whole, its bits above n   *)
(* included.                                                               *)
xMBUtilSetBits(buf, offset, n, value) ==
  (buf \ (offset..(offset + n - 1))) \cup {offset + i : i \in value}

xMBUtilGetBits(buf, offset, n) == {i \in Bits(n) : offset + i \in buf}

----------------------------------------------------------------------------
(* The callbacks of main.cpp.  Addresses count from 1 there.               *)

(* The test that answers MB_ENOREG otherwise; the sum does not wrap.       *)
InRange(addr, n, total) == addr >= 1 /\ addr + n <= 1 + total

Chunk(n, k) == IF n - W * (k - 1) > W THEN W ELSE n - W * (k - 1)

Bytes(n) == IF n % W # 0 THEN (n \div W) + 1 ELSE n \div W

(* The loop over bytes of eMBRegCoilsCB in mode MB_REG_WRITE: f[k] is the  *)
(* buffer after k bytes.                                                   *)
WriteLoop(buf, index, n, data) ==
  LET f[k \in 0..Bytes(n)] ==
        IF k = 0 THEN buf
        ELSE xMBUtilSetBits(f[k - 1], index + W * (k - 1), Chunk(n, k), data[k])
  IN f[Bytes(n)]

(* Mutant: every byte clears W bits.                                       *)
WriteCoils_Wide(buf, index, n, data) ==
  (buf \ (index..(index + W * Bytes(n) - 1)))
    \cup UNION {{index + W * (k - 1) + i : i \in data[k]} : k \in 1..Bytes(n)}

(* What the loop amounts to, as theorem LoopIsOneWrite says: only the last *)
(* byte can spill.                                                         *)
WriteCoils(buf, index, n, data) ==
  (buf \ (index..(index + n - 1)))
    \cup UNION {{index + W * (k - 1) + i : i \in data[k]} : k \in 1..Bytes(n)}

(* The loop in mode MB_REG_READ, and that of eMBRegDiscreteCB.             *)
ReadBits(buf, index, n) ==
  [k \in 1..Bytes(n) |-> xMBUtilGetBits(buf, index + W * (k - 1), Chunk(n, k))]

(* Mutant: a coil's light is one off.                                      *)
Process_Shifted(buf, addr, n) ==
  [c \in Lights |->
     IF c \in addr..(addr + n - 1) THEN (IF c \in buf THEN "on" ELSE "off") ELSE lights[c]]

(* coil_hardware_process switches the lights of the coils written.         *)
Process(buf, addr, n) ==
  [c \in Lights |->
     IF c \in (addr - 1)..(addr + n - 2) THEN (IF c \in buf THEN "on" ELSE "off") ELSE lights[c]]

(* eMBRegHoldingCB and eMBRegInputCB.                                      *)
ReadRegs(regs, addr, n) == [k \in 1..n |-> regs[addr - 1 + k - 1]]

(* Mutant: iRegIndex is the address, which counts from 1.                  *)
WriteRegs_Shifted(regs, addr, n, data) ==
  [i \in Bits(NRegs) |-> IF i \in addr..(addr + n - 1) THEN data[i - addr + 1] ELSE regs[i]]

WriteRegs(regs, addr, n, data) ==
  [i \in Bits(NRegs) |-> IF i \in (addr - 1)..(addr + n - 2) THEN data[i - addr + 2] ELSE regs[i]]

----------------------------------------------------------------------------
(* The handlers.                                                           *)

(* usRegAddress++ on 16 bits.                                              *)
Address(field) == (field + 1) % Ushort

(* The request of each handler is valid, its registers exist.              *)
Answer(valid, exists, data) ==
  reply' = IF ~valid THEN [ex |-> "ILLEGAL_DATA_VALUE", data |-> <<>>]
           ELSE IF ~exists THEN [ex |-> "ILLEGAL_DATA_ADDRESS", data |-> <<>>]
           ELSE [ex |-> "NONE", data |-> data]

Take(r, fn) == r.fn = fn /\ request' = r

eMBFuncReadCoils(r) ==
  LET a == Address(r.addr) IN
  /\ Take(r, "READ_COILS")
  /\ Answer(r.len = 5 /\ r.cnt >= 1 /\ r.cnt < CoilReadMax,
            InRange(a, r.cnt, NCoils), ReadBits(usRegCoilBuf, a - 1, r.cnt))
  /\ UNCHANGED <<usRegCoilBuf, usRegHoldingBuf, lights>>

eMBFuncReadDiscreteInputs(r) ==
  LET a == Address(r.addr) IN
  /\ Take(r, "READ_DISCRETE_INPUTS")
  /\ Answer(r.len = 5 /\ r.cnt >= 1 /\ r.cnt < CoilReadMax,
            InRange(a, r.cnt, NCoils), ReadBits(Discrete, a - 1, r.cnt))
  /\ UNCHANGED <<usRegCoilBuf, usRegHoldingBuf, lights>>

eMBFuncWriteCoil(r) ==
  LET a     == Address(r.addr)
      valid == r.len = 5 /\ r.value \in {"on", "off"}
      buf   == WriteCoils(usRegCoilBuf, a - 1, 1, <<IF r.value = "on" THEN {0} ELSE {}>>) IN
  /\ Take(r, "WRITE_SINGLE_COIL")
  /\ Answer(valid, InRange(a, 1, NCoils), <<>>)
  /\ IF valid /\ InRange(a, 1, NCoils)
     THEN usRegCoilBuf' = buf /\ lights' = Process(buf, a, 1)
     ELSE UNCHANGED <<usRegCoilBuf, lights>>
  /\ UNCHANGED usRegHoldingBuf

eMBFuncWriteMultipleCoils(r) ==
  LET a     == Address(r.addr)
      valid == /\ r.len > 5
               /\ r.cnt >= 1 /\ r.cnt <= CoilWriteMax
               /\ Bytes(r.cnt) % Uchar = r.bytes
      buf   == WriteCoils(usRegCoilBuf, a - 1, r.cnt, r.data) IN
  /\ Take(r, "WRITE_MULTIPLE_COILS")
  /\ Answer(valid, InRange(a, r.cnt, NCoils), <<>>)
  /\ IF valid /\ InRange(a, r.cnt, NCoils)
     THEN usRegCoilBuf' = buf /\ lights' = Process(buf, a, r.cnt)
     ELSE UNCHANGED <<usRegCoilBuf, lights>>
  /\ UNCHANGED usRegHoldingBuf

eMBFuncWriteHoldingRegister(r) ==
  LET a     == Address(r.addr)
      valid == r.len = 5 IN
  /\ Take(r, "WRITE_REGISTER")
  /\ Answer(valid, InRange(a, 1, NRegs), <<>>)
  /\ usRegHoldingBuf' = IF valid /\ InRange(a, 1, NRegs)
                        THEN WriteRegs(usRegHoldingBuf, a, 1, <<r.value>>) ELSE usRegHoldingBuf
  /\ UNCHANGED <<usRegCoilBuf, lights>>

eMBFuncWriteMultipleHoldingRegister(r) ==
  LET a     == Address(r.addr)
      valid == /\ r.len >= 6
               /\ r.cnt >= 1 /\ r.cnt <= RegWriteMax
               /\ r.bytes = (2 * r.cnt) % Uchar IN
  /\ Take(r, "WRITE_MULTIPLE_REGISTERS")
  /\ Answer(valid, InRange(a, r.cnt, NRegs), <<>>)
  /\ usRegHoldingBuf' = IF valid /\ InRange(a, r.cnt, NRegs)
                        THEN WriteRegs(usRegHoldingBuf, a, r.cnt, r.data) ELSE usRegHoldingBuf
  /\ UNCHANGED <<usRegCoilBuf, lights>>

(* The count is assigned, not or-ed, the second time: only its low byte    *)
(* remains.                                                                *)
eMBFuncReadHoldingRegister(r) ==
  LET a   == Address(r.addr)
      cnt == r.cnt % Uchar IN
  /\ Take(r, "READ_HOLDING_REGISTER")
  /\ Answer(r.len = 5 /\ cnt >= 1 /\ cnt <= RegReadMax,
            InRange(a, cnt, NRegs), ReadRegs(usRegHoldingBuf, a, cnt))
  /\ UNCHANGED <<usRegCoilBuf, usRegHoldingBuf, lights>>

eMBFuncReadInputRegister(r) ==
  LET a == Address(r.addr) IN
  /\ Take(r, "READ_INPUT_REGISTER")
  /\ Answer(r.len = 5 /\ r.cnt >= 1 /\ r.cnt < RegReadMax,
            InRange(a, r.cnt, NRegs), ReadRegs(Input, a, r.cnt))
  /\ UNCHANGED <<usRegCoilBuf, usRegHoldingBuf, lights>>

(* Mutant: the registers are read before they are written.                 *)
ReadWrite_ReadFirst(r) ==
  LET ra == Address(r.raddr)
      wa == Address(r.addr)
      ok == InRange(wa, r.cnt, NRegs) /\ InRange(ra, r.rcnt, NRegs) IN
  /\ Take(r, "READWRITE_MULTIPLE_REGISTERS")
  /\ r.len >= 10
  /\ Answer(TRUE, ok, ReadRegs(usRegHoldingBuf, ra, r.rcnt))
  /\ usRegHoldingBuf' = IF ok THEN WriteRegs(usRegHoldingBuf, wa, r.cnt, r.data) ELSE usRegHoldingBuf
  /\ UNCHANGED <<usRegCoilBuf, lights>>

(* Write, then read: when only the read fails the write remains.  A PDU    *)
(* that is too short is no error: it is sent back as the reply.            *)
eMBFuncReadWriteMultipleHoldingRegister(r) ==
  LET ra    == Address(r.raddr)
      wa    == Address(r.addr)
      valid == /\ r.rcnt >= 1 /\ r.rcnt <= RegReadMax
               /\ r.cnt >= 1 /\ r.cnt <= RegWriteMax + 1
               /\ r.bytes = 2 * r.cnt
      write == valid /\ InRange(wa, r.cnt, NRegs)
      regs  == IF write THEN WriteRegs(usRegHoldingBuf, wa, r.cnt, r.data) ELSE usRegHoldingBuf IN
  /\ Take(r, "READWRITE_MULTIPLE_REGISTERS")
  /\ \/ /\ r.len >= 10
        /\ Answer(valid, write /\ InRange(ra, r.rcnt, NRegs), ReadRegs(regs, ra, r.rcnt))
        /\ usRegHoldingBuf' = regs
     \/ /\ r.len < 10
        /\ Answer(TRUE, TRUE, <<>>)
        /\ UNCHANGED usRegHoldingBuf
  /\ UNCHANGED <<usRegCoilBuf, lights>>

Next ==
  \E r \in Requests :
    \/ eMBFuncReadCoils(r) \/ eMBFuncReadDiscreteInputs(r)
    \/ eMBFuncWriteCoil(r) \/ eMBFuncWriteMultipleCoils(r)
    \/ eMBFuncWriteHoldingRegister(r) \/ eMBFuncWriteMultipleHoldingRegister(r)
    \/ eMBFuncReadHoldingRegister(r) \/ eMBFuncReadInputRegister(r)
    \/ eMBFuncReadWriteMultipleHoldingRegister(r)

Spec == Init /\ [][Next]_vars

----------------------------------------------------------------------------
(* Properties.  They are stated with the data addresses of the PDU, which  *)
(* count from 0.                                                           *)

Executed == request # NoRequest
Done     == Executed /\ reply.ex = "NONE"
Named(r) == r.addr..(r.addr + (IF r.fn \in {"WRITE_SINGLE_COIL", "WRITE_REGISTER"} THEN 1 ELSE r.cnt) - 1)

CoilWrite == {"WRITE_SINGLE_COIL", "WRITE_MULTIPLE_COILS"}
RegWrite  == {"WRITE_REGISTER", "WRITE_MULTIPLE_REGISTERS", "READWRITE_MULTIPLE_REGISTERS"}

(* The bytes of a multiple write are there - the handler does not look at  *)
(* usLen for that - and the unused bits of the last one are zero.          *)
PaddedRequests ==
  \A r \in Requests : r.fn = "WRITE_MULTIPLE_COILS" =>
    /\ Bytes(r.cnt) <= Len(r.data)
    /\ \A k \in 1..Bytes(r.cnt) : \A i \in r.data[k] : W * (k - 1) + i < r.cnt

(* xMBUtilSetBits reads and writes the byte after the one addressed: the   *)
(* byte behind usRegCoilBuf keeps its value all the same, when masters pad *)
(* the last byte with zeros.                                               *)
BufferBounded == usRegCoilBuf \subseteq Bits(NCoils)

(* A request changes the coils or registers it names and no others, and a  *)
(* refused one changes nothing - but for the write part of function 23.    *)
OnlyNamedChange ==
  [][/\ \A c \in Bits(NCoils) : ~(c \in usRegCoilBuf' <=> c \in usRegCoilBuf) =>
           request'.fn \in CoilWrite /\ c \in Named(request') /\ reply'.ex = "NONE"
     /\ \A i \in Bits(NRegs) : usRegHoldingBuf'[i] # usRegHoldingBuf[i] =>
           /\ request'.fn \in RegWrite /\ i \in Named(request')
           /\ reply'.ex = "NONE" \/ request'.fn = "READWRITE_MULTIPLE_REGISTERS"
    ]_vars

(* A write that is confirmed has stored its values, bit by bit across the  *)
(* byte boundaries of the PDU and of the buffer.                           *)
ConfirmedIsStored ==
  Done =>
    /\ request.fn = "WRITE_SINGLE_COIL" =>
         (request.addr \in usRegCoilBuf <=> request.value = "on")
    /\ request.fn = "WRITE_MULTIPLE_COILS" => \A o \in Bits(request.cnt) :
         (request.addr + o \in usRegCoilBuf <=> o % W \in request.data[(o \div W) + 1])
    /\ request.fn = "WRITE_REGISTER" => usRegHoldingBuf[request.addr] = request.value
    /\ request.fn \in {"WRITE_MULTIPLE_REGISTERS", "READWRITE_MULTIPLE_REGISTERS"} =>
         \A o \in Bits(request.cnt) : usRegHoldingBuf[request.addr + o] = request.data[o + 1]

(* A read returns the current values, the unused bits of the last byte     *)
(* zero; function 23 returns them as they are after its write.             *)
ReadsAreCurrent ==
  Done =>
    /\ request.fn \in {"READ_COILS", "READ_DISCRETE_INPUTS"} =>
         LET buf == IF request.fn = "READ_COILS" THEN usRegCoilBuf ELSE Discrete IN
         UNION {{W * (k - 1) + i : i \in reply.data[k]} : k \in DOMAIN reply.data}
           = {o \in Bits(request.cnt) : request.addr + o \in buf}
    /\ request.fn = "READ_HOLDING_REGISTER" =>
         reply.data = [k \in 1..request.cnt |-> usRegHoldingBuf[request.addr + k - 1]]
    /\ request.fn = "READ_INPUT_REGISTER" =>
         reply.data = [k \in 1..request.cnt |-> Input[request.addr + k - 1]]
    /\ request.fn = "READWRITE_MULTIPLE_REGISTERS" =>
         reply.data = [k \in 1..request.rcnt |-> usRegHoldingBuf[request.raddr + k - 1]]

(* main.cpp: a light shows the coil it belongs to, as soon as that coil    *)
(* has been written once.                                                  *)
LightsFollowCoils ==
  \A c \in Lights : lights[c] # "unset" => (lights[c] = "on" <=> c \in usRegCoilBuf)

(* A request whose length, count or byte count is wrong gets the exception *)
(* ILLEGAL DATA VALUE (comments of the handlers: "If not return Modbus     *)
(* illegal data value exception", "the length is incorrect").              *)
Malformed(r) ==
  \/ r.fn \in ReadFn /\ (r.len # 5 \/ r.cnt = 0 \/ r.cnt > (IF r.fn \in {"READ_COILS", "READ_DISCRETE_INPUTS"} THEN CoilReadMax ELSE RegReadMax))
  \/ r.fn = "WRITE_SINGLE_COIL" /\ (r.len # 5 \/ r.value = "bad")
  \/ r.fn = "WRITE_REGISTER" /\ r.len # 5
  \/ r.fn = "WRITE_MULTIPLE_COILS" /\ (r.len < 6 \/ r.cnt = 0 \/ r.bytes # (r.cnt + W - 1) \div W)
  \/ r.fn = "WRITE_MULTIPLE_REGISTERS" /\ (r.len < 6 \/ r.cnt = 0 \/ r.bytes # 2 * r.cnt)
  \/ r.fn = "READWRITE_MULTIPLE_REGISTERS" /\ (r.len < 10 \/ r.cnt = 0 \/ r.rcnt = 0 \/ r.bytes # 2 * r.cnt)

MalformedRefused == Executed /\ Malformed(request) => reply.ex = "ILLEGAL_DATA_VALUE"
============================================================================
