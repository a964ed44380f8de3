------------------------------- MODULE MCArrPush -------------------------------
EXTENDS ArrPush

===============================================================================
