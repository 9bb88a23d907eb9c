CONSTANTS
  MaxClicks = 2
  Buttons = {"deposit", "withdraw", "borrow", "repay", "fullRepay", "liquidate"}
  MaxShell = 2
  Amounts = {1}
  MaxUnits = 2
SPECIFICATION Spec
INVARIANTS
  TypeOK
  OutcomesAreRecorded
PROPERTIES
  NoWithdrawalInDebt
  ButtonsReturn
CHECK_DEADLOCK FALSE
