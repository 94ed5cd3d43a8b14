------------------------------ MODULE MCModbus ------------------------------
(* Calls on small and on the largest frames, right and wrong addresses,    *)
(* sizes beyond the limits: three small calls in every order on an         *)
(* undisturbed link, pairs with faults, single calls with the rest.        *)
EXTENDS Modbus

Call(slave, fn, addr, size, data) == [slave |-> slave, fn |-> fn, addr |-> addr, size |-> size, data |-> data]

Read == Call(1, 3, 0, 1, <<>>)
ReadOther == Call(1, 3, 1, 1, <<>>)
WriteReg == Call(1, 6, 0, 1, <<1, 2>>)
WriteRegs == Call(1, 16, 0, 1, <<0, 3>>)
WriteCoil == Call(1, 5, 1, 1, <<1, 0>>)

Small == {Read, ReadOther, WriteReg}
Single ==
  { Call(2, 3, 0, 1, <<>>), Call(1, 3, 0, 0, <<>>), Call(1, 3, 0, 126, <<>>), Call(1, 1, 0, 9, <<>>),
    Call(1, 2, 0, 2000, <<>>), Call(1, 4, 0, 125, <<>>), Call(1, 6, 2000, 1, <<0, 9>>),
    Call(1, 15, 0, 9, <<255, 1>>), Call(1, 16, 1, 123, [i \in 1..246 |-> i % 3]) }

Plan(b, calls, times, short, faults, cuts) ==
  [backend |-> b, calls |-> calls, tid |-> 65536 - Len(calls), times |-> times, short |-> short, faults |-> faults, cuts |-> cuts]

Links == {"tcp", "rtu"}
MCPlans ==
  {Plan(b, <<c1, c2>>, 2, 0, 0, 1) : b \in Links, c1 \in Small, c2 \in {Read, WriteReg}}
  \cup {Plan(b, <<ReadOther, c, Read>>, 1, 0, 0, 0) : b \in Links, c \in {Read, WriteReg}}
  \cup {Plan("tcp", <<c1, c2>>, 1, 1, 0, 2) : c1 \in {WriteRegs, WriteReg}, c2 \in {Read, WriteCoil}}
  \cup {Plan("rtu", <<c1, c2>>, 1, 0, 1, 1) : c1 \in {WriteRegs, WriteReg}, c2 \in {Read, WriteCoil}}
  \cup {Plan(b, <<c>>, 1, 1, 0, 0) : b \in Links, c \in Single}
=============================================================================
