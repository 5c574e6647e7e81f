SPECIFICATION ConsoleSpec
CONSTANTS
  Bios = Bios
  Rom = Rom
  Eram = Eram
  Wram = Wram
  beside = beside
  inside = inside
  across = across
  over = over
  nowhere = nowhere
  tail = tail
  NULL = NULL
  ctx1 = ctx1
  ctx2 = ctx2
  Device <- Devices
  Start <- Starts
  End <- Ends
  AddressRange = 12
  WRAM_FIXED_SIZE = 1
  WRAM_BANK_COUNT = 2
  WRAM_BANK_SIZE = 2
  Context <- Contexts
  Value <- Values
  BankRegister <- Registers
  MaxForeign = 3
  MaxWrites = 3
INVARIANT RefusedOwnsNothing
