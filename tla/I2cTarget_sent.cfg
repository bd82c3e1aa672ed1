SPECIFICATION I2cSpec
CONSTANTS
    Users = {u1, u2}
    Nobody = Nobody
INVARIANT Uninterruptible
CHECK_DEADLOCK FALSE
