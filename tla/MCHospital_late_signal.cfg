CONSTANTS
  patient_count = 2
  doctor_count = 1
  available_count = 2
SPECIFICATION SafeSpec
INVARIANT SignalFindsCondition
