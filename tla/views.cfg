SPECIFICATION WholeSpec
CONSTANT Changes = {revoke, confirm}
PROPERTIES ScreensFollow RowsStand
CHECK_DEADLOCK FALSE
