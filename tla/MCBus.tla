-------------------------------- MODULE MCBus --------------------------------
(* Instances of Bus for TLC: transfers of up to three bytes that are split   *)
(* into two, one device among two addresses.                                 *)
EXTENDS Bus

Spi(tx, rx) == [k |-> "spi", tx |-> tx, rx |-> rx]
I2c(address, tx, rx) == [k |-> "i2c", address |-> address, tx |-> tx, rx |-> rx]
Set(v) == [k |-> "set", level |-> v]
Plain == [k |-> "status"]
Scan == [k |-> "scan"]

BusOperations ==
  [bpio2 |-> {Plain, Set(1), Set(2), Scan, Spi(<<1, 0, 2>>, 3), Spi(<<>>, 3),
              Spi(<<0, 1, 1>>, 0), I2c(2, <<0>>, 2), I2c(2, <<1, 1, 1>>, 0),
              [k |-> "transmit", tx |-> <<2, 0, 0>>],
              [k |-> "capture", rx |-> 3]},
   numato |-> {Plain, Set(1), Set(2)}]

ScanOperations == [bpio2 |-> {Scan}]

DevicesPresent == {2}

=============================================================================
