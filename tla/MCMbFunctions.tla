--------------------------- MODULE MCMbFunctions ---------------------------
(* MbFunctions with bytes of two bits, four coils and two registers.       *)
EXTENDS MbFunctions

MCInitCoils == {1}
MCHolding == [i \in Bits(2) |-> "a"]
MCDiscrete == {0, 3}
MCInput == [i \in Bits(2) |-> IF i = 0 THEN "a" ELSE "b"]
MCOutputs == {0, 2}

\* Data addresses around the ends of the buffer, and the one that wraps.
Addr == {0, 1, 3, 65535}
Count == 0..5

\* The values of n coils packed into bytes, the unused bits zero.
Pack(n, on) == [k \in 1..Bytes(n) |-> {i \in Bits(W) : W * (k - 1) + i \in on}]

\* No coil, every coil, the first, every other coil.
Patterns(n) == {{}, Bits(n), Bits(n) \cap {0}, {i \in Bits(n) : i % 2 = 1}}

\* Everything about coils and discrete inputs.
MCCoilRequests ==
  [fn : {"READ_COILS", "READ_DISCRETE_INPUTS"}, len : {5}, addr : Addr, cnt : Count]
    \cup [fn : {"READ_COILS", "READ_DISCRETE_INPUTS"}, len : {4, 6}, addr : {0}, cnt : {1}]
    \cup [fn : {"WRITE_SINGLE_COIL"}, len : {5}, addr : Addr \cup {2, 4}, value : {"on", "off", "bad"}]
    \cup [fn : {"WRITE_SINGLE_COIL"}, len : {4}, addr : {0}, value : {"on"}]
    \cup UNION {[fn : {"WRITE_MULTIPLE_COILS"}, len : {6 + Bytes(n)}, addr : Addr, cnt : {n},
                 bytes : {Bytes(n)}, data : {Pack(n, on) : on \in Patterns(n)}] : n \in Count}
    \cup [fn : {"WRITE_MULTIPLE_COILS"}, len : {5, 7}, addr : {0}, cnt : {1, 3}, bytes : {1},
          data : {<<{}, {}>>}]

\* Everything about holding and input registers.
MCRegRequests ==
  [fn : {"READ_HOLDING_REGISTER", "READ_INPUT_REGISTER"}, len : {5}, addr : {0, 1, 65535},
   cnt : {0, 1, 2, 3}]
    \cup [fn : {"READ_HOLDING_REGISTER", "READ_INPUT_REGISTER"}, len : {4}, addr : {0}, cnt : {1}]
    \cup [fn : {"WRITE_REGISTER"}, len : {5}, addr : {0, 1, 2}, value : {"a", "b"}]
    \cup [fn : {"WRITE_REGISTER"}, len : {4}, addr : {0}, value : {"b"}]
    \cup UNION {[fn : {"WRITE_MULTIPLE_REGISTERS"}, len : {6 + 2 * n}, addr : {0, 1, 65535},
                 cnt : {n}, bytes : {1, 2 * n}, data : {[i \in 1..n |-> IF i = 1 THEN v ELSE "b"] :
                                                        v \in {"a", "b"}}] : n \in 0..3}
    \cup [fn : {"WRITE_MULTIPLE_REGISTERS"}, len : {5}, addr : {0}, cnt : {1}, bytes : {2},
          data : {<<"a">>}]
    \cup UNION {[fn : {"READWRITE_MULTIPLE_REGISTERS"}, len : {10 + 2 * n}, raddr : {0, 1},
                 rcnt : {0, 1, 2}, addr : {0, 1}, cnt : {n}, bytes : {2 * n, 4},
                 data : {[i \in 1..n |-> "b"]}] : n \in 0..2}

MCRequests == MCCoilRequests \cup MCRegRequests

\* Two registers are read, or 257.
MCLongRead == [fn : {"READ_HOLDING_REGISTER"}, len : {5}, addr : {0}, cnt : {2, 257}]
============================================================================
