SPECIFICATION Spec
CONSTANTS
  Registers = {0, 1, 2}
  Modulus = 3
  Program <- MCProgram
INVARIANT TypeOK OperandsFresh RegistersFollow StaleStoreOnlyAfterAuipc
