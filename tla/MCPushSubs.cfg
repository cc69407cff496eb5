SPECIFICATION Spec
CONSTANTS
  phone = phone
  laptop = laptop
  n1 = n1
  Device <- Devices
  Notification <- Notifications
INVARIANT RemovedStaysRemoved
CHECK_DEADLOCK FALSE
